---- MODULE Spec2Model ----
(***************************************************************************)
(* Model of the network-metrics aggregation layer of the interstate trade  *)
(* dashboard: the import-time pipeline of src/data_loader.py (rank         *)
(* annotation, GDP/coordinate joins, boundary deltas, commodity segments)  *)
(* and the edge selection / aggregation done per request by                *)
(* src/data_loader.py:get_top_edges, src/callbacks/interactions.py:        *)
(* update_map and src/components/map.py:create_network_map.                *)
(*                                                                         *)
(* A pandas DataFrame is a sequence of records (one record per row, one    *)
(* field per column).  A cell is <<v>> when defined and <<>> when it is    *)
(* NaN / missing.  A module-level name that has not been assigned yet is   *)
(* modelled as the empty sequence; no action reads a name before the       *)
(* import step that assigns it.                                            *)
(***************************************************************************)
EXTENDS Integers, Sequences, FiniteSets, TLC

VARIABLES
    pc,                     \* position of the import of data_loader.py, then "serve"
    error,                  \* the exception that ended the import, "None" without one
    gdp_csv,                \* rows of state_gdp_2017.csv
    gdp,                    \* data_loader.gdp
    coords,                 \* data_loader.coords (state_coords.csv)
    filtration_csv,         \* rows of filtration_results_51x51.csv
    filtration_data,        \* data_loader.filtration_data: threshold label -> table
    csv_51x51,              \* rows of centralities_51x51.csv
    csv_52x52,              \* rows of centralities_52x52.csv
    centralities_51x51,     \* data_loader.centralities_51x51 (after _prepare_centralities)
    centralities_52x52,     \* data_loader.centralities_52x52 (after _prepare_centralities)
    rank_changes,           \* data_loader.rank_changes
    commodity_centralities_raw, \* data_loader.commodity_centralities_raw
    commodity_centralities, \* data_loader.commodity_centralities
    network,                \* data_loader.network: the directed edges in iteration order
    request,                \* the last request served (its name and arguments)
    edge_data,              \* the edge list built by the last request
    edge_pairs,             \* create_network_map's edge_pairs dict of the last request
    returned,               \* the table the last request returned, when it returns one
    node_labels,            \* what the last figure shows for each node
    store_selected_state,   \* dcc.Store 'selected-state'
    store_selected_measure, \* dcc.Store 'selected-measure'
    store_network_type,     \* dcc.Store 'network-type'
    store_app_mode,         \* dcc.Store 'app-mode'
    dark_mode_toggle,       \* value of the 'dark-mode-toggle' switch
    clickData,              \* clickData of 'network-map': the last click, kept until the next
    btn_outline,            \* outline of each button
    btn_color,              \* color of each button
    display,                \* style['display'] of the sections the callbacks show and hide
    event,                  \* the last input the browser delivered
    active_cell,            \* active_cell of 'rankings-table'
    table_data,             \* data of 'rankings-table'
    table_fresh,            \* the table was re-created and its insertion is not yet reported
    pending                 \* the callbacks the last input has set off and that have not run

vars == <<pc, error, gdp_csv, gdp, coords, filtration_csv, filtration_data, csv_51x51,
          csv_52x52, centralities_51x51, centralities_52x52, rank_changes,
          commodity_centralities_raw, commodity_centralities, network,
          request, edge_data, edge_pairs, returned, node_labels,
          store_selected_state, store_selected_measure, store_network_type,
          store_app_mode, dark_mode_toggle, clickData, btn_outline, btn_color,
          display, event, active_cell, table_data, table_fresh, pending>>

inputVars == <<gdp_csv, coords, filtration_csv, csv_51x51, csv_52x52,
               commodity_centralities_raw, network>>

requestVars == <<request, edge_data, edge_pairs, returned, node_labels>>

\* the stores and properties of the page, but for the rankings table
uiVars == <<store_selected_state, store_selected_measure, store_network_type,
            store_app_mode, dark_mode_toggle, clickData, btn_outline, btn_color,
            display, event>>

\* what update_rankings_table's output replaces, and the dispatch
tableVars == <<active_cell, table_data, table_fresh, pending>>

(***************************************************************************)
(* Bounds of the model.                                                    *)
(***************************************************************************)
MaxRows == 3

MaxJoinStates == 2

MaxRefRows == 2

MaxEdges == 2

MaxListLen == 3

MaxTopN == 3

MaxMapEdges == 2

MaxColumnRows == 2

MaxKeyRows == 2

(***************************************************************************)
(* Cells, columns and small sequence helpers.                              *)
(***************************************************************************)
Undefined == <<>>

Def(v) == <<v>>

IsDefined(x) == x # Undefined

Val(x) == x[1]

Column(df, col) == [i \in 1..Len(df) |-> df[i][col]]

SetMin(S) == CHOOSE m \in S : \A x \in S : m <= x

RECURSIVE SeqSum(_)
SeqSum(s) == IF s = <<>> THEN 0 ELSE Head(s) + SeqSum(Tail(s))

RECURSIVE SelectRows(_, _, _)
\* df[df[col] == value]
SelectRows(df, col, value) ==
    IF df = <<>> THEN <<>>
    ELSE IF Head(df)[col] = value
         THEN <<Head(df)>> \o SelectRows(Tail(df), col, value)
         ELSE SelectRows(Tail(df), col, value)

RECURSIVE Unique(_)
\* Series.unique(): the distinct values in order of first appearance
Unique(s) ==
    IF s = <<>> THEN <<>>
    ELSE LET front == Unique(SubSeq(s, 1, Len(s) - 1))
             last == s[Len(s)]
         IN IF \E i \in 1..Len(front) : front[i] = last THEN front
            ELSE Append(front, last)

(***************************************************************************)
(* Series.rank(ascending=False, method='min'), na_option='keep': the       *)
(* defined values are sorted in descending order and every member of a tie *)
(* group gets the first (smallest) position of its group; a missing value  *)
(* gets a missing rank.                                                    *)
(***************************************************************************)
RECURSIVE InsertDesc(_, _)
InsertDesc(sorted, v) ==
    IF sorted = <<>> THEN <<v>>
    ELSE IF Head(sorted) >= v THEN <<Head(sorted)>> \o InsertDesc(Tail(sorted), v)
         ELSE <<v>> \o sorted

RECURSIVE SortDesc(_)
SortDesc(values) ==
    IF values = <<>> THEN <<>>
    ELSE InsertDesc(SortDesc(SubSeq(values, 1, Len(values) - 1)), values[Len(values)])

DefinedValues(column) ==
    LET present == SelectSeq(column, IsDefined)
    IN [i \in 1..Len(present) |-> Val(present[i])]

\* method='dense': the next distinct value's rank grows by one
RankDenseDesc(column) ==
    [i \in 1..Len(column) |->
        IF IsDefined(column[i])
        THEN Def(1 + Cardinality({Val(column[j]) : j \in
                 {k \in 1..Len(column) : IsDefined(column[k])
                                         /\ Val(column[k]) > Val(column[i])}}))
        ELSE Undefined]

RankMinDesc(column) ==
    LET sorted == SortDesc(DefinedValues(column))
    IN [i \in 1..Len(column) |->
           IF IsDefined(column[i])
           THEN Def(SetMin({k \in 1..Len(sorted) : sorted[k] = Val(column[i])}))
           ELSE Undefined]

\* Series.astype(int) raises when a value is missing
AsTypeIntRaises(column) == \E i \in 1..Len(column) : ~IsDefined(column[i])

(***************************************************************************)
(* Import of data_loader.py: the loaders and the derived module tables.    *)
(***************************************************************************)
Measures == <<"betweenness", "eigenvector", "out_degree">>

\* df['gdp_2017_q4_millions'] / 1000 (the model's GDP values are whole billions)
GdpBillions(csv) ==
    [i \in 1..Len(csv) |->
        IF IsDefined(csv[i].gdp_2017_q4_millions)
        THEN Def(Val(csv[i].gdp_2017_q4_millions) \div 1000)
        ELSE Undefined]

load_gdp_raises(csv) == AsTypeIntRaises(RankMinDesc(GdpBillions(csv)))

load_gdp(csv) ==
    LET billions == GdpBillions(csv)
        ranks == RankMinDesc(billions)
    IN [i \in 1..Len(csv) |->
           csv[i] @@ [gdp_billions |-> billions[i], gdp_rank |-> ranks[i]]]

\* df[col] raises KeyError when no column has the name (a table without rows
\* stands for one that has every column)
MissingColumn(df, col) == \E i \in 1..Len(df) : col \notin DOMAIN df[i]

\* the rank lines read the three measure columns
rank_step_raises(df) ==
    \E measure \in {"betweenness", "eigenvector", "out_degree"} :
        MissingColumn(df, measure)

\* the ranks written over the score columns instead of into rank_<measure>
RankMeasuresInPlace(df) ==
    LET rb == RankMinDesc(Column(df, "betweenness"))
        re == RankMinDesc(Column(df, "eigenvector"))
        ro == RankMinDesc(Column(df, "out_degree"))
    IN [i \in 1..Len(df) |->
           [betweenness |-> rb[i], eigenvector |-> re[i], out_degree |-> ro[i]] @@ df[i]]

\* the three df['rank_<measure>'] = df[<measure>].rank(ascending=False, method='min') lines
RankMeasures(df) ==
    LET rb == RankMinDesc(Column(df, "betweenness"))
        re == RankMinDesc(Column(df, "eigenvector"))
        ro == RankMinDesc(Column(df, "out_degree"))
    IN [i \in 1..Len(df) |->
           [rank_betweenness |-> rb[i], rank_eigenvector |-> re[i],
            rank_out_degree |-> ro[i]] @@ df[i]]

\* the loop body runs for every label of the file, so for every row
load_filtration_data_raises(csv) == rank_step_raises(csv)

load_filtration_data(csv) ==
    LET labels == Unique(Column(csv, "threshold_label"))
    IN [threshold_label \in {labels[i] : i \in 1..Len(labels)} |->
           RankMeasures(SelectRows(csv, "threshold_label", threshold_label))]

RECURSIVE InnerMerge(_, _, _, _)
\* how='inner': a row of df without a matching row of right is dropped
InnerMerge(df, right, right_on, columns) ==
    IF df = <<>> THEN <<>>
    ELSE LET row == Head(df)
             matches == SelectRows(right, right_on, row.state)
         IN [k \in 1..Len(matches) |->
                [c \in columns |->
                    IF c = "state_name" THEN Def(matches[k][c])
                    ELSE matches[k][c]] @@ row]
            \o InnerMerge(Tail(df), right, right_on, columns)

RECURSIVE LeftMerge(_, _, _, _)
\* df.merge(right[[right_on] + columns], left_on='state', right_on=right_on,
\*          how='left').drop(columns=[right_on]): every row of df in order, once per
\* matching row of right, or once with the columns missing when no row matches
LeftMerge(df, right, right_on, columns) ==
    IF df = <<>> THEN <<>>
    ELSE LET row == Head(df)
             matches == SelectRows(right, right_on, row.state)
             joined ==
                 IF matches = <<>>
                 THEN <<[c \in columns |-> Undefined] @@ row>>
                 ELSE [k \in 1..Len(matches) |->
                          [c \in columns |->
                              IF c = "state_name" THEN Def(matches[k][c])
                              ELSE matches[k][c]] @@ row]
         IN joined \o LeftMerge(Tail(df), right, right_on, columns)

\* merge(left_on='state') raises KeyError when df has no column 'state'
prepare_centralities_raises(df) == MissingColumn(df, "state")

\* _prepare_centralities(df): merge GDP, then state_name
PrepareCentralities(df, gdpTable, coordTable) ==
    LeftMerge(LeftMerge(df, gdpTable, "state_abbrev", {"gdp_billions", "gdp_rank"}),
              coordTable, "state_abbr", {"state_name"})

IsUnique(s) == \A i, j \in 1..Len(s) : s[i] = s[j] => i = j

\* centralities_52x52[centralities_52x52['state'].isin(states_51)]
StatesOnly(df52, df51) ==
    LET states_51 == {df51[i].state : i \in 1..Len(df51)}
        Keep(row) == row.state \in states_51
    IN SelectSeq(df52, Keep)

\* rank_52 - rank_51: the sign of the delta reversed
RankDeltaReversed(df51, only52, measure) ==
    LET col == "rank_" \o measure
    IN [i \in 1..Len(df51) |->
           LET other == SelectRows(only52, "state", df51[i].state)
           IN IF other # <<>> /\ IsDefined(df51[i][col]) /\ IsDefined(other[1][col])
              THEN Def(Val(other[1][col]) - Val(df51[i][col]))
              ELSE Undefined]

\* (rank_51 - rank_52).reindex(rank_changes['state']).values for one measure:
\* equal indexes subtract row by row; unique indexes are aligned on the label
RankDelta(df51, only52, measure) ==
    LET col == "rank_" \o measure
    IN IF Column(df51, "state") = Column(only52, "state")
       THEN [i \in 1..Len(df51) |->
                IF IsDefined(df51[i][col]) /\ IsDefined(only52[i][col])
                THEN Def(Val(df51[i][col]) - Val(only52[i][col]))
                ELSE Undefined]
       ELSE [i \in 1..Len(df51) |->
                LET other == SelectRows(only52, "state", df51[i].state)
                IN IF other # <<>> /\ IsDefined(df51[i][col])
                                   /\ IsDefined(other[1][col])
                   THEN Def(Val(df51[i][col]) - Val(other[1][col]))
                   ELSE Undefined]

\* reindexing a Series whose labels repeat raises ValueError unless the
\* two indexes are equal
rank_changes_raises(df51, df52) ==
    LET i1 == Column(df51, "state")
        i2 == Column(StatesOnly(df52, df51), "state")
    IN i1 # i2 /\ ~(IsUnique(i1) /\ IsUnique(i2))

ComputeRankChangesTable(df51, df52) ==
    LET only52 == StatesOnly(df52, df51)
        b == RankDelta(df51, only52, "betweenness")
        e == RankDelta(df51, only52, "eigenvector")
        o == RankDelta(df51, only52, "out_degree")
    IN [i \in 1..Len(df51) |->
           [state |-> df51[i].state, betweenness_change |-> b[i],
            eigenvector_change |-> e[i], out_degree_change |-> o[i]]]

RECURSIVE ConcatSegments(_, _, _, _)
\* the loop of _prepare_commodity_centralities over df['commodity_code'].unique()
ConcatSegments(codes, df, gdpTable, coordTable) ==
    IF codes = <<>> THEN <<>>
    ELSE PrepareCentralities(
             RankMeasures(SelectRows(df, "commodity_code", Head(codes))),
             gdpTable, coordTable)
         \o ConcatSegments(Tail(codes), df, gdpTable, coordTable)

\* ranks computed once over the whole table instead of inside each commodity code
RankThenSegment(df, gdpTable, coordTable) ==
    LET ranked == RankMeasures(df)
        codes == Unique(Column(df, "commodity_code"))
        Segment(c) == PrepareCentralities(SelectRows(ranked, "commodity_code", c),
                                          gdpTable, coordTable)
    IN IF codes = <<>> THEN <<>>
       ELSE IF Len(codes) = 1 THEN Segment(codes[1])
       ELSE Segment(codes[1]) \o Segment(codes[2])

\* code_df[<measure>] and the merge on 'state' raise KeyError for a column the
\* table lacks; pd.concat([]) raises ValueError
prepare_commodity_error(df) ==
    IF df = <<>> THEN "ValueError"
    ELSE IF rank_step_raises(df) \/ prepare_centralities_raises(df) THEN "KeyError"
    ELSE "None"

prepare_commodity_raises(df) == prepare_commodity_error(df) # "None"

PrepareCommodityCentralities(df, gdpTable, coordTable) ==
    ConcatSegments(Unique(Column(df, "commodity_code")), df, gdpTable, coordTable)

LoadFiltrationData ==
    /\ pc = "load_filtration_data"
    /\ IF load_filtration_data_raises(filtration_csv)
       THEN pc' = "raised" /\ error' = "KeyError" /\ UNCHANGED filtration_data
       ELSE /\ pc' = "load_gdp"
            /\ filtration_data' = load_filtration_data(filtration_csv)
            /\ UNCHANGED error
    /\ UNCHANGED <<uiVars, tableVars>>
    /\ UNCHANGED <<inputVars, requestVars, gdp, centralities_51x51,
                   centralities_52x52, rank_changes, commodity_centralities>>

LoadGdp ==
    /\ pc = "load_gdp"
    /\ IF load_gdp_raises(gdp_csv)
       THEN pc' = "raised" /\ error' = "ValueError" /\ UNCHANGED gdp
       ELSE pc' = "prepare_51x51" /\ gdp' = load_gdp(gdp_csv) /\ UNCHANGED error
    /\ UNCHANGED <<uiVars, tableVars>>
    /\ UNCHANGED <<inputVars, requestVars, filtration_data, centralities_51x51,
                   centralities_52x52, rank_changes, commodity_centralities>>

PrepareCentralities51 ==
    /\ pc = "prepare_51x51"
    /\ IF prepare_centralities_raises(csv_51x51)
       THEN pc' = "raised" /\ error' = "KeyError" /\ UNCHANGED centralities_51x51
       ELSE /\ pc' = "prepare_52x52"
            /\ centralities_51x51' = PrepareCentralities(csv_51x51, gdp, coords)
            /\ UNCHANGED error
    /\ UNCHANGED <<uiVars, tableVars>>
    /\ UNCHANGED <<inputVars, requestVars, gdp, filtration_data,
                   centralities_52x52, rank_changes, commodity_centralities>>

PrepareCentralities52 ==
    /\ pc = "prepare_52x52"
    /\ IF prepare_centralities_raises(csv_52x52)
       THEN pc' = "raised" /\ error' = "KeyError" /\ UNCHANGED centralities_52x52
       ELSE /\ pc' = "rank_changes"
            /\ centralities_52x52' = PrepareCentralities(csv_52x52, gdp, coords)
            /\ UNCHANGED error
    /\ UNCHANGED <<uiVars, tableVars>>
    /\ UNCHANGED <<inputVars, requestVars, gdp, filtration_data,
                   centralities_51x51, rank_changes, commodity_centralities>>

ComputeRankChanges ==
    /\ pc = "rank_changes"
    /\ IF rank_changes_raises(centralities_51x51, centralities_52x52)
       THEN pc' = "raised" /\ error' = "ValueError" /\ UNCHANGED rank_changes
       ELSE /\ pc' = "prepare_commodity"
            /\ UNCHANGED error
            /\ rank_changes' =
                   ComputeRankChangesTable(centralities_51x51, centralities_52x52)
    /\ UNCHANGED <<uiVars, tableVars>>
    /\ UNCHANGED <<inputVars, requestVars, gdp, filtration_data,
                   centralities_51x51, centralities_52x52, commodity_centralities>>

PrepareCommodity ==
    /\ pc = "prepare_commodity"
    /\ IF prepare_commodity_raises(commodity_centralities_raw)
       THEN /\ pc' = "raised"
            /\ error' = prepare_commodity_error(commodity_centralities_raw)
            /\ UNCHANGED commodity_centralities
       ELSE /\ pc' = "serve"
            /\ UNCHANGED error
            /\ commodity_centralities' =
                   PrepareCommodityCentralities(commodity_centralities_raw, gdp, coords)
    /\ UNCHANGED <<uiVars, tableVars>>
    /\ UNCHANGED <<inputVars, requestVars, gdp, filtration_data,
                   centralities_51x51, centralities_52x52, rank_changes>>

ImportNext ==
    \/ LoadFiltrationData
    \/ LoadGdp
    \/ PrepareCentralities51
    \/ PrepareCentralities52
    \/ ComputeRankChanges
    \/ PrepareCommodity

(***************************************************************************)
(* Inputs.  The files read at import are inputs of the model: each         *)
(* specification draws the tables its claims are about from bounded sets   *)
(* and keeps the other files at the reference tables below.                *)
(***************************************************************************)
StateNames == <<"CA", "IA", "NY", "TX", "WA", "WY">>

Aggregate == "RoW"

StateAt(i) == StateNames[((i - 1) % Len(StateNames)) + 1]

\* state_id of a code in the centrality files
IdOf(code) ==
    IF code = Aggregate THEN Len(StateNames) + 1
    ELSE CHOOSE i \in 1..Len(StateNames) : StateNames[i] = code

NoScores == [betweenness |-> Undefined, eigenvector |-> Def(1), out_degree |-> Def(2)]

ScoreRows ==
    { NoScores,
      [betweenness |-> Def(1), eigenvector |-> Def(1), out_degree |-> Undefined],
      [betweenness |-> Def(2), eigenvector |-> Def(1), out_degree |-> Undefined],
      [betweenness |-> Def(1), eigenvector |-> Def(2), out_degree |-> Def(2)] }

ThresholdLabels == {"full_network", "threshold_1"}

CommodityCodes == {"01", "02"}

GdpCells == {Undefined, Def(30000), Def(50000)}

GdpCsvTables(n) ==
    UNION {{[i \in 1..k |-> [state_abbrev |-> StateAt(i),
                             gdp_2017_q4_millions |-> f[i]]] :
            f \in [1..k -> GdpCells]} : k \in 0..n}

FiltrationCsvTables(n) ==
    UNION {{[i \in 1..k |-> [state_id |-> IdOf(StateAt(i)), state |-> StateAt(i),
                             threshold_label |-> f[i][1]] @@ f[i][2]] :
            f \in [1..k -> ThresholdLabels \X ScoreRows]} : k \in 0..n}

CommodityRawTables(n) ==
    UNION {{[i \in 1..k |-> [state_id |-> IdOf(StateAt(i)), state |-> StateAt(i),
                             commodity_code |-> f[i][1]] @@ f[i][2]] :
            f \in [1..k -> CommodityCodes \X ScoreRows]} : k \in 0..n}

RefGdpCsv ==
    << [state_abbrev |-> "CA", gdp_2017_q4_millions |-> Def(50000)],
       [state_abbrev |-> "IA", gdp_2017_q4_millions |-> Def(30000)],
       [state_abbrev |-> "NY", gdp_2017_q4_millions |-> Def(40000)],
       [state_abbrev |-> "TX", gdp_2017_q4_millions |-> Def(50000)] >>

RefCoords ==
    << [state_abbr |-> "CA", state_name |-> "California", lat |-> 37, lon |-> -120],
       [state_abbr |-> "IA", state_name |-> "Iowa", lat |-> 42, lon |-> -93],
       [state_abbr |-> "NY", state_name |-> "New York", lat |-> 43, lon |-> -75],
       [state_abbr |-> "TX", state_name |-> "Texas", lat |-> 31, lon |-> -99] >>

CsvRow(code, scores, ranks) ==
    [state_id |-> IdOf(code), state |-> code,
     betweenness |-> Def(scores[1]), eigenvector |-> Def(scores[2]),
     out_degree |-> Def(scores[3]),
     rank_betweenness |-> Def(ranks[1]), rank_eigenvector |-> Def(ranks[2]),
     rank_out_degree |-> Def(ranks[3])]

RefCsv51 ==
    << CsvRow("CA", <<5, 9, 7>>, <<2, 1, 2>>),
       CsvRow("IA", <<7, 3, 2>>, <<1, 4, 4>>),
       CsvRow("NY", <<4, 4, 4>>, <<3, 3, 3>>),
       CsvRow("TX", <<1, 6, 8>>, <<4, 2, 1>>) >>

RefCsv52 ==
    << CsvRow("CA", <<5, 8, 7>>, <<3, 2, 3>>),
       CsvRow("IA", <<7, 6, 2>>, <<2, 3, 5>>),
       CsvRow("NY", <<4, 2, 4>>, <<4, 5, 4>>),
       CsvRow("TX", <<1, 3, 8>>, <<5, 4, 2>>),
       CsvRow(Aggregate, <<9, 9, 9>>, <<1, 1, 1>>) >>

FiltrationRow(code, label, scores) ==
    [state_id |-> IdOf(code), state |-> code, threshold_label |-> label,
     betweenness |-> Def(scores[1]), eigenvector |-> Def(scores[2]),
     out_degree |-> Def(scores[3])]

RefFiltrationCsv ==
    << FiltrationRow("CA", "full_network", <<5, 9, 7>>),
       FiltrationRow("IA", "full_network", <<7, 3, 2>>),
       FiltrationRow("NY", "full_network", <<4, 4, 4>>),
       FiltrationRow("TX", "full_network", <<1, 6, 8>>),
       FiltrationRow("CA", "threshold_1", <<4, 9, 7>>),
       FiltrationRow("IA", "threshold_1", <<4, 3, 2>>),
       FiltrationRow("TX", "threshold_1", <<2, 6, 8>>),
       FiltrationRow("CA", "threshold_2", <<2, 9, 7>>),
       FiltrationRow("TX", "threshold_2", <<3, 6, 8>>),
       FiltrationRow("CA", "threshold_3", <<1, 9, 7>>) >>

CommodityRow(code, commodity, scores) ==
    [state_id |-> IdOf(code), state |-> code, commodity_code |-> commodity,
     betweenness |-> Def(scores[1]), eigenvector |-> Def(scores[2]),
     out_degree |-> Def(scores[3])]

RefCommodityRaw ==
    << CommodityRow("CA", "01", <<5, 9, 7>>),
       CommodityRow("IA", "01", <<5, 3, 2>>),
       CommodityRow("TX", "02", <<1, 6, 8>>) >>

Edge(s, t, w) == [source |-> s, target |-> t, weight |-> w]

\* CA->IA 10, IA->CA 4, NY->TX 100
RefNetwork == << Edge(1, 2, 10), Edge(2, 1, 4), Edge(3, 4, 100) >>

NoRequest == [name |-> "none"]

\* ctx.triggered_id and the stores hold None as the string "None" here
NoValue == "None"

\* the buttons the callbacks restyle
Buttons ==
    {"btn-eigen", "btn-outdeg", "btn-between", "btn-51x51", "btn-52x52",
     "btn-explore", "btn-analyze"}

\* the page as create_layout builds it: the stores' data, the buttons' outline and
\* color, the sections' display, no click yet and an empty table container
\* (layout.py has no app-mode store, mode buttons or expanded stats panel: those
\* are as app.py lays them out)
LayoutStart ==
    /\ store_selected_state = NoValue
    /\ store_selected_measure = "eigenvector"
    /\ store_network_type = "51x51"
    /\ store_app_mode = "explore"
    /\ dark_mode_toggle = FALSE
    /\ clickData = <<>>
    /\ btn_outline = [b \in Buttons |->
                         b \notin {"btn-eigen", "btn-51x51", "btn-explore"}]
    /\ btn_color = [b \in Buttons |-> "light"]
    /\ display = [c \in {"filtration-section", "stats-badge", "stats-panel-expanded"} |->
                     IF c = "stats-badge" THEN "block" ELSE "none"]
    /\ event = [id |-> "none"]
    /\ active_cell = <<>>
    /\ table_data = <<>>
    /\ table_fresh = FALSE
    /\ pending = {}

\* the state in which the import of data_loader.py starts on the given files
ImportStart(gdpCsv, coordTable, filtrationCsv, csv51, csv52, commodityRaw, edges) ==
    /\ pc = "load_filtration_data"
    /\ error = "None"
    /\ gdp_csv = gdpCsv
    /\ coords = coordTable
    /\ filtration_csv = filtrationCsv
    /\ csv_51x51 = csv51
    /\ csv_52x52 = csv52
    /\ commodity_centralities_raw = commodityRaw
    /\ network = edges
    /\ gdp = <<>>
    /\ filtration_data = <<>>
    /\ centralities_51x51 = <<>>
    /\ centralities_52x52 = <<>>
    /\ rank_changes = <<>>
    /\ commodity_centralities = <<>>
    /\ request = NoRequest
    /\ edge_data = <<>>
    /\ edge_pairs = <<>>
    /\ node_labels = <<>>
    /\ returned = <<>>
    /\ LayoutStart

(***************************************************************************)
(* SpecRank: the import over every GDP file, every filtration file and     *)
(* every commodity file of the bounds (one of the three varies at a time). *)
(***************************************************************************)
InitRank ==
    \/ \E t \in GdpCsvTables(MaxRows) :
           ImportStart(t, RefCoords, RefFiltrationCsv, RefCsv51, RefCsv52,
                       RefCommodityRaw, RefNetwork)
    \/ \E t \in FiltrationCsvTables(MaxRows) :
           ImportStart(RefGdpCsv, RefCoords, t, RefCsv51, RefCsv52,
                       RefCommodityRaw, RefNetwork)
    \/ \E t \in CommodityRawTables(MaxRows) :
           ImportStart(RefGdpCsv, RefCoords, RefFiltrationCsv, RefCsv51, RefCsv52,
                       t, RefNetwork)

SpecRank == InitRank /\ [][ImportNext]_vars

(***************************************************************************)
(* Claims about rank annotation.                                           *)
(***************************************************************************)
StrictlyGreater(table, score, i) ==
    {j \in 1..Len(table) :
        IsDefined(table[j][score]) /\ Val(table[j][score]) > Val(table[i][score])}

CompetitionRanked(table, score, rank) ==
    \A i \in 1..Len(table) :
        IsDefined(table[i][score]) =>
            table[i][rank] = Def(1 + Cardinality(StrictlyGreater(table, score, i)))

MeasuresCompetitionRanked(table) ==
    /\ CompetitionRanked(table, "betweenness", "rank_betweenness")
    /\ CompetitionRanked(table, "eigenvector", "rank_eigenvector")
    /\ CompetitionRanked(table, "out_degree", "rank_out_degree")

CommodityCodesOf(table) == {table[i].commodity_code : i \in 1..Len(table)}

\* C1: in the GDP table, in every filtration level and in every commodity segment,
\* the rank of a row with a defined score is 1 + the number of rows of the same
\* table whose score is strictly greater (descending competition ranking).
C1_CompetitionRanking ==
    /\ CompetitionRanked(gdp, "gdp_billions", "gdp_rank")
    /\ \A label \in DOMAIN filtration_data :
           MeasuresCompetitionRanked(filtration_data[label])
    /\ \A code \in CommodityCodesOf(commodity_centralities) :
           MeasuresCompetitionRanked(
               SelectRows(commodity_centralities, "commodity_code", code))

\* GDP [50, 50, 30] has been loaded and carries gdp_rank [1, 1, 3]
C1_Witness ==
    /\ Column(gdp, "gdp_billions") = <<Def(50), Def(50), Def(30)>>
    /\ Column(gdp, "gdp_rank") = <<Def(1), Def(1), Def(3)>>

(***************************************************************************)
(* SpecJoin: the import over pairs of domestic / extended centrality files *)
(* (any subset of the states, the extended file with or without the        *)
(* aggregate node) and over GDP / coordinate files that lack codes or      *)
(* list a code more than once.                                             *)
(***************************************************************************)
CsvRanks == <<1, 18, 31>>

RankAt(k, shift) == CsvRanks[((k + shift - 1) % Len(CsvRanks)) + 1]

\* a row of a centrality file: the ranks are those stored in the file
VariantRow(code, k) ==
    CsvRow(code, <<IdOf(code) + 1, k, 1>>, <<RankAt(k, 0), RankAt(k, 1), RankAt(k, 2)>>)

RECURSIVE RowsOf(_, _)
\* the rows of the codes that pick[code] > 0 keeps, in the order of codes
RowsOf(codes, pick) ==
    IF codes = <<>> THEN <<>>
    ELSE (IF pick[Head(codes)] = 0 THEN <<>>
          ELSE <<VariantRow(Head(codes), pick[Head(codes)])>>)
         \o RowsOf(Tail(codes), pick)

JoinStates == [i \in 1..MaxJoinStates |-> StateAt(i)]

VariantTables(codes) ==
    {RowsOf(codes, pick) :
        pick \in [{codes[i] : i \in 1..Len(codes)} -> 0..Len(CsvRanks)]}

RefCodes == {RefCsv51[i].state : i \in 1..Len(RefCsv51)}

PlaceNames == <<"California", "Iowa", "New York", "Texas", "Golden State">>

GdpReferenceTables(n) ==
    UNION {{[i \in 1..k |-> [state_abbrev |-> f[i],
                             gdp_2017_q4_millions |-> Def(10000 * (i + 2))]] :
            f \in [1..k -> RefCodes]} : k \in 0..n}

CoordReferenceTables(n) ==
    UNION {{[i \in 1..k |-> [state_abbr |-> f[i],
                             state_name |-> PlaceNames[((i - 1) % Len(PlaceNames)) + 1],
                             lat |-> 30 + i, lon |-> 0 - (90 + i)]] :
            f \in [1..k -> RefCodes]} : k \in 0..n}

InitJoin ==
    \/ \E t51 \in VariantTables(JoinStates),
          t52 \in VariantTables(Append(JoinStates, Aggregate)) :
           ImportStart(RefGdpCsv, RefCoords, RefFiltrationCsv, t51, t52,
                       RefCommodityRaw, RefNetwork)
    \/ \E g \in GdpReferenceTables(MaxRefRows), c \in CoordReferenceTables(MaxRefRows) :
           ImportStart(g, c, RefFiltrationCsv, RefCsv51, RefCsv52,
                       RefCommodityRaw, RefNetwork)

SpecJoin == InitJoin /\ [][ImportNext]_vars

(***************************************************************************)
(* create_network_map: the rank-change line of a node's hover text.        *)
(***************************************************************************)
RankChangeHover(change) ==
    IF ~IsDefined(change) THEN "none"
    ELSE IF Val(change) > 0 THEN "up"
    ELSE IF Val(change) < 0 THEN "down"
    ELSE "no change"

(***************************************************************************)
(* Claims about the boundary deltas and the joins.                         *)
(***************************************************************************)
StatesOf(table) == {table[i].state : i \in 1..Len(table)}

DeltaIsDifference(measure) ==
    LET change == measure \o "_change"
        rank == "rank_" \o measure
    IN \A i \in 1..Len(rank_changes) :
       \A a \in 1..Len(centralities_51x51) :
       \A b \in 1..Len(centralities_52x52) :
           (/\ centralities_51x51[a].state = rank_changes[i].state
            /\ centralities_52x52[b].state = rank_changes[i].state)
           => LET r51 == Val(centralities_51x51[a][rank])
                  r52 == Val(centralities_52x52[b][rank])
                  delta == rank_changes[i][change]
              IN /\ delta = Def(r51 - r52)
                 /\ (RankChangeHover(delta) = "up") <=> (r52 < r51)
                 /\ (RankChangeHover(delta) = "down") <=> (r52 > r51)
                 /\ (RankChangeHover(delta) = "no change") <=> (r52 = r51)

\* C2: for every measure and every code present in both variants the boundary delta
\* is rank_domestic - rank_extended; it is positive (shown as improved) exactly when
\* the extended rank number is smaller, negative when larger, zero when equal.
C2_DeltaIsDomesticMinusExtended ==
    /\ DeltaIsDifference("betweenness")
    /\ DeltaIsDifference("eigenvector")
    /\ DeltaIsDifference("out_degree")

\* a code with domestic rank_eigenvector 31 and extended rank_eigenvector 18 has
\* an eigenvector delta of +13
C2_Witness ==
    \E i \in 1..Len(rank_changes) :
    \E a \in 1..Len(centralities_51x51) :
    \E b \in 1..Len(centralities_52x52) :
        /\ centralities_51x51[a].state = rank_changes[i].state
        /\ centralities_52x52[b].state = rank_changes[i].state
        /\ centralities_51x51[a].rank_eigenvector = Def(31)
        /\ centralities_52x52[b].rank_eigenvector = Def(18)
        /\ rank_changes[i].eigenvector_change = Def(13)

RankChangesComputed == pc \in {"prepare_commodity", "serve"}

\* C3: the key set of rank_changes is exactly the intersection of the domestic and
\* the extended node codes (no aggregate node, no code missing from the extended
\* variant).
C3_KeySetIsIntersection ==
    RankChangesComputed =>
        StatesOf(rank_changes)
            = StatesOf(centralities_51x51) \cap StatesOf(centralities_52x52)

\* C4: the joined view has exactly as many rows as the centrality table it was
\* made from, whatever the GDP and coordinate tables hold.
C4_RowCountPreserved ==
    /\ pc \notin {"load_filtration_data", "load_gdp", "prepare_51x51", "raised"}
           => Len(centralities_51x51) = Len(csv_51x51)
    /\ pc \in {"rank_changes", "prepare_commodity", "serve"}
           => Len(centralities_52x52) = Len(csv_52x52)
    /\ pc = "serve"
           => Len(commodity_centralities) = Len(commodity_centralities_raw)

Restrict(row, columns) == [c \in columns |-> row[c]]

KeptUnjoined(csv, joined) ==
    \A i \in 1..Len(csv) :
        LET code == csv[i].state
            rows == {j \in 1..Len(joined) : joined[j].state = code}
            noGdp == \A k \in 1..Len(gdp) : gdp[k].state_abbrev # code
            noCoords == \A k \in 1..Len(coords) : coords[k].state_abbr # code
        IN (noGdp \/ noCoords) =>
               /\ rows # {}
               /\ \A j \in rows :
                      /\ Restrict(joined[j], DOMAIN csv[i]) = csv[i]
                      /\ noGdp => /\ joined[j].gdp_billions = Undefined
                                  /\ joined[j].gdp_rank = Undefined
                      /\ noCoords => joined[j].state_name = Undefined
               /\ (noGdp /\ noCoords) => Cardinality(rows) = 1

\* C5: a centrality row whose code has no GDP entry or no coordinate entry is kept
\* in the joined view with gdp_billions, gdp_rank or state_name undefined, and all
\* its original columns unchanged.
C5_UnmatchedRowKept ==
    /\ pc \notin {"load_filtration_data", "load_gdp", "prepare_51x51", "raised"}
           => KeptUnjoined(csv_51x51, centralities_51x51)
    /\ pc \in {"rank_changes", "prepare_commodity", "serve"}
           => KeptUnjoined(csv_52x52, centralities_52x52)

\* the aggregate node of the extended file is in the joined extended view without
\* GDP and without a name, next to a state that has both
C5_Witness ==
    /\ pc = "serve"
    /\ \E j \in 1..Len(centralities_52x52) :
           /\ centralities_52x52[j].state = Aggregate
           /\ centralities_52x52[j].gdp_billions = Undefined
           /\ centralities_52x52[j].gdp_rank = Undefined
           /\ centralities_52x52[j].state_name = Undefined
    /\ \E j \in 1..Len(centralities_52x52) :
           /\ IsDefined(centralities_52x52[j].gdp_rank)
           /\ IsDefined(centralities_52x52[j].state_name)

(***************************************************************************)
(* SpecCommodity: the import over every commodity file of the bounds.      *)
(***************************************************************************)
InitCommodity ==
    \E t \in CommodityRawTables(MaxRows) :
        ImportStart(RefGdpCsv, RefCoords, RefFiltrationCsv, RefCsv51, RefCsv52,
                    t, RefNetwork)

SpecCommodity == InitCommodity /\ [][ImportNext]_vars

(***************************************************************************)
(* Claims about the commodity segments.                                    *)
(***************************************************************************)
\* the rank columns of segment code, row by row
SegmentRanks(table, code) ==
    LET rows == SelectRows(table, "commodity_code", code)
    IN [i \in 1..Len(rows) |->
           Restrict(rows[i], {"state", "rank_betweenness", "rank_eigenvector",
                              "rank_out_degree"})]

AgreeOn(code, t1, t2) ==
    SelectRows(t1, "commodity_code", code) = SelectRows(t2, "commodity_code", code)

RemoveAt(t, i) == SubSeq(t, 1, i - 1) \o SubSeq(t, i + 1, Len(t))

InsertAt(t, i, row) == SubSeq(t, 1, i - 1) \o <<row>> \o SubSeq(t, i, Len(t))

\* the tables one edit away from t: a row removed, or a row added at any position
\* (changing a row is removing it and adding the changed row)
Edits(t) ==
    LET Row(code, commodity, scores) ==
            [state_id |-> IdOf(code), state |-> code, commodity_code |-> commodity]
            @@ scores
    IN {RemoveAt(t, i) : i \in 1..Len(t)}
       \cup {InsertAt(t, i, Row(StateAt(Len(t) + 1), c, sc)) :
                 i \in 1..(Len(t) + 1), c \in CommodityCodes, sc \in ScoreRows}

\* C6: two commodity tables that agree on the rows of code X (here: the loaded table
\* and any table one edit of another code's rows away, so by chaining any table that
\* agrees on X) produce the same rank columns for segment X.
C6_CommodityIsolation ==
    pc = "serve" =>
        \A code \in CommodityCodes :
        \A t2 \in Edits(commodity_centralities_raw) :
            AgreeOn(code, commodity_centralities_raw, t2) =>
                SegmentRanks(commodity_centralities, code)
                    = SegmentRanks(PrepareCommodityCentralities(t2, gdp, coords), code)

\* a ranked segment of two rows beside a row of another code that scores higher
\* than one of them, so that the other code's rows could change a shared ranking
C6_Witness ==
    /\ pc = "serve"
    /\ \E i, j, k \in 1..Len(commodity_centralities) :
           /\ i # j
           /\ commodity_centralities[i].commodity_code = "01"
           /\ commodity_centralities[j].commodity_code = "01"
           /\ commodity_centralities[k].commodity_code = "02"
           /\ IsDefined(commodity_centralities[i].betweenness)
           /\ IsDefined(commodity_centralities[k].betweenness)
           /\ Val(commodity_centralities[k].betweenness)
                  > Val(commodity_centralities[i].betweenness)
           /\ commodity_centralities[i].rank_betweenness = Def(1)
           /\ commodity_centralities[j].rank_betweenness = Def(1)

(***************************************************************************)
(* Edge selection: get_top_edges and the two modes of update_map.          *)
(***************************************************************************)
None == "None"

\* Python truthiness of an optional string
Truthy(x) == x # None /\ x # ""

\* dict(zip(centralities['state_id'], centralities['state'])): the last row of an
\* id gives its label
IdToLabel(centralities) ==
    [id \in {centralities[i].state_id : i \in 1..Len(centralities)} |->
        LET last == CHOOSE i \in 1..Len(centralities) :
                        /\ centralities[i].state_id = id
                        /\ \A j \in (i + 1)..Len(centralities) :
                               centralities[j].state_id # id
        IN centralities[last].state]

\* id_to_label.get(id)
LabelOf(id_to_label, id) == IF id \in DOMAIN id_to_label THEN id_to_label[id] ELSE None

\* {code: {'lat': ..., 'lon': ...}}: the last row of a code gives its coordinates
CoordLookup(coordTable) ==
    [code \in {coordTable[i].state_abbr : i \in 1..Len(coordTable)} |->
        LET last == CHOOSE i \in 1..Len(coordTable) :
                        /\ coordTable[i].state_abbr = code
                        /\ \A j \in (i + 1)..Len(coordTable) :
                               coordTable[j].state_abbr # code
        IN [lat |-> coordTable[last].lat, lon |-> coordTable[last].lon]]

\* the dict appended to top_edges / edge_data
EdgeDict(source_label, target_label, weight, lookup) ==
    [source |-> source_label, target |-> target_label, weight |-> weight,
     source_lat |-> lookup[source_label].lat, source_lon |-> lookup[source_label].lon,
     target_lat |-> lookup[target_label].lat, target_lon |-> lookup[target_label].lon]

RECURSIVE InsertByWeight(_, _)
\* an edge goes after every edge that is at least as heavy: equal weights keep
\* their order (sorted(..., reverse=True) is stable)
InsertByWeight(sorted, edge) ==
    IF sorted = <<>> THEN <<edge>>
    ELSE IF Head(sorted).weight >= edge.weight
         THEN <<Head(sorted)>> \o InsertByWeight(Tail(sorted), edge)
         ELSE <<edge>> \o sorted

RECURSIVE InsertByWeightFirst(_, _)
InsertByWeightFirst(sorted, edge) ==
    IF sorted = <<>> THEN <<edge>>
    ELSE IF Head(sorted).weight > edge.weight
         THEN <<Head(sorted)>> \o InsertByWeightFirst(Tail(sorted), edge)
         ELSE <<edge>> \o sorted

RECURSIVE SortByWeightReversedTies(_)
\* a descending sort that reverses the order of equal weights
SortByWeightReversedTies(edges) ==
    IF edges = <<>> THEN <<>>
    ELSE InsertByWeightFirst(SortByWeightReversedTies(SubSeq(edges, 1, Len(edges) - 1)),
                             edges[Len(edges)])

RECURSIVE SortByWeightDesc(_)
\* sorted(edges_with_weight, key=lambda x: x[2], reverse=True)
SortByWeightDesc(edges) ==
    IF edges = <<>> THEN <<>>
    ELSE InsertByWeight(SortByWeightDesc(SubSeq(edges, 1, Len(edges) - 1)),
                        edges[Len(edges)])

\* seq[:n]
SliceTo(seq, n) ==
    IF n >= 0 THEN SubSeq(seq, 1, IF n < Len(seq) THEN n ELSE Len(seq))
    ELSE SubSeq(seq, 1, Len(seq) + n)

RECURSIVE CompleteEdges(_, _, _)
\* the loop body of get_top_edges: an edge without both labels or both coordinate
\* entries is skipped
CompleteEdges(edges, id_to_label, lookup) ==
    IF edges = <<>> THEN <<>>
    ELSE LET source_label == LabelOf(id_to_label, Head(edges).source)
             target_label == LabelOf(id_to_label, Head(edges).target)
             rest == CompleteEdges(Tail(edges), id_to_label, lookup)
         IN IF ~Truthy(source_label) \/ ~Truthy(target_label) THEN rest
            ELSE IF source_label \notin DOMAIN lookup \/ target_label \notin DOMAIN lookup
                 THEN rest
            ELSE <<EdgeDict(source_label, target_label, Head(edges).weight, lookup)>>
                 \o rest

get_top_edges(edges, coordTable, centralities, top_n) ==
    CompleteEdges(SliceTo(SortByWeightDesc(edges), top_n),
                  IdToLabel(centralities), CoordLookup(coordTable))

\* the selected state's edges with the source only
FocusOnSource(edges, state_id) ==
    LET Touches(e) == e.source = state_id
    IN SelectSeq(edges, Touches)

\* for s, t, d in network.edges(data=True): if s == state_id or t == state_id
FocusOn(edges, state_id) ==
    LET Touches(e) == e.source = state_id \/ e.target = state_id
    IN SelectSeq(edges, Touches)

\* update_map with a selected state: label_to_id.get(selected_state), then the loop
FocusEdges(edges, coordTable, centralities, selected_state) ==
    LET id_to_label == IdToLabel(centralities)
        ids == Unique(Column(centralities, "state_id"))
        named == {k \in 1..Len(ids) : id_to_label[ids[k]] = selected_state}
    IN IF named = {} THEN <<>>
       ELSE CompleteEdges(
                FocusOn(edges, ids[CHOOSE k \in named : \A o \in named : o <= k]),
                id_to_label, CoordLookup(coordTable))

(***************************************************************************)
(* Edge aggregation of create_network_map.                                 *)
(***************************************************************************)
\* the state codes and the aggregate, in the order sorted() gives strings
Alphabet ==
    << "AK", "AL", "AR", "AZ", "CA", "CO", "CT", "DC", "DE", "FL", "GA", "HI", "IA",
       "ID", "IL", "IN", "KS", "KY", "LA", "MA", "MD", "ME", "MI", "MN", "MO", "MS",
       "MT", "NC", "ND", "NE", "NH", "NJ", "NM", "NV", "NY", "OH", "OK", "OR", "PA",
       "RI", "RoW", "SC", "SD", "TN", "TX", "UT", "VA", "VT", "WA", "WI", "WV", "WY" >>

AlphaRank(code) == CHOOSE i \in 1..Len(Alphabet) : Alphabet[i] = code

\* a key that keeps the direction
DirectedPair(a, b) == <<a, b>>

\* tuple(sorted([source, target]))
SortedPair(a, b) == IF AlphaRank(a) <= AlphaRank(b) THEN <<a, b>> ELSE <<b, a>>

\* the direction string with the endpoints exchanged
DirectionReversed(edge) == edge.target \o "->" \o edge.source

\* direction = f"{edge['source']}->{edge['target']}"
Direction(edge) == edge.source \o "->" \o edge.target

\* edge_pairs[pair_key]['flows'][direction] = edge['weight']
SetFlow(flows, direction, weight) ==
    IF \E k \in 1..Len(flows) : flows[k].direction = direction
    THEN [k \in 1..Len(flows) |->
             IF flows[k].direction = direction
             THEN [direction |-> direction, weight |-> weight]
             ELSE flows[k]]
    ELSE Append(flows, [direction |-> direction, weight |-> weight])

\* one iteration of `for edge in edge_data`
AddEdge(pairs, edge) ==
    LET pair_key == SortedPair(edge.source, edge.target)
        known == \E k \in 1..Len(pairs) : pairs[k].pair_key = pair_key
        opened == IF known THEN pairs
                  ELSE Append(pairs,
                              [pair_key |-> pair_key,
                               coords |-> <<edge.source_lat, edge.source_lon,
                                            edge.target_lat, edge.target_lon>>,
                               flows |-> <<>>])
        at == CHOOSE k \in 1..Len(opened) : opened[k].pair_key = pair_key
    IN [opened EXCEPT ![at].flows = SetFlow(@, Direction(edge), edge.weight)]

RECURSIVE AddEdges(_, _, _, _)
\* the iterations first..last of `for edge in edge_data`, in their order: the
\* first half of the range, then the second half from what the first has built
\* (Len(done) >= 0 always holds: it has the first half evaluated before the second
\* starts, which keeps the evaluation of a long list shallow)
AddEdges(pairs, list, first, last) ==
    IF first > last THEN pairs
    ELSE IF first = last THEN AddEdge(pairs, list[first])
    ELSE LET mid == (first + last) \div 2
             done == AddEdges(pairs, list, first, mid)
         IN IF Len(done) >= 0 THEN AddEdges(done, list, mid + 1, last) ELSE done

\* the whole loop, from an empty edge_pairs
AggregateEdges(list) == AddEdges(<<>>, list, 1, Len(list))

\* total_weight = sum(flows.values())
TotalWeight(pair) == SeqSum([k \in 1..Len(pair.flows) |-> pair.flows[k].weight])

\* if show_edges and edge_data: ... (edge_data None and [] are both the empty
\* sequence here; request.show_edges tells them apart)
EdgePairsOf(show_edges, list) ==
    IF show_edges /\ list # <<>> THEN AggregateEdges(list) ELSE <<>>

(***************************************************************************)
(* Requests served after the import.                                       *)
(***************************************************************************)
DefaultTopN == 60

FiltrationKey(filtration) ==
    IF filtration = 1 THEN "threshold_1"
    ELSE IF filtration = 2 THEN "threshold_2"
    ELSE IF filtration = 3 THEN "threshold_3"
    ELSE "full_network"

OrDefault(x, default) == IF x = None THEN default ELSE x

UsesFiltration(measure, filtration) ==
    OrDefault(measure, "eigenvector") = "betweenness"
        /\ FiltrationKey(filtration) # "full_network"

\* filtration_data[threshold_key] raises KeyError for a level the file lacks
update_map_raises(measure, filtration) ==
    UsesFiltration(measure, filtration)
        /\ FiltrationKey(filtration) \notin DOMAIN filtration_data

\* the network type looked at first: the extended table whenever it is '52x52'
CentralitiesViewByType(measure, filtration, network_type) ==
    IF OrDefault(network_type, "51x51") = "52x52"
    THEN LET NotRoW(row) == row.state # Aggregate
         IN SelectSeq(centralities_52x52, NotRoW)
    ELSE IF UsesFiltration(measure, filtration)
         THEN PrepareCentralities(filtration_data[FiltrationKey(filtration)], gdp, coords)
         ELSE centralities_51x51

\* the centralities update_map works with
CentralitiesView(measure, filtration, network_type) ==
    IF UsesFiltration(measure, filtration)
    THEN PrepareCentralities(filtration_data[FiltrationKey(filtration)], gdp, coords)
    ELSE IF OrDefault(network_type, "51x51") = "52x52"
         THEN LET NotRoW(row) == row.state # Aggregate
              IN SelectSeq(centralities_52x52, NotRoW)
         ELSE centralities_51x51

\* a call of get_top_edges(network, coords, <view>, top_n)
GetTopEdges(top_n, measure, filtration, network_type) ==
    /\ pc = "serve"
    /\ ~update_map_raises(measure, filtration)
    /\ request' = [name |-> "get_top_edges", top_n |-> top_n, measure |-> measure,
                   filtration |-> filtration, network_type |-> network_type]
    /\ edge_data' = get_top_edges(network, coords,
                        CentralitiesView(measure, filtration, network_type), top_n)
    /\ edge_pairs' = <<>>
    /\ node_labels' = <<>>
    /\ returned' = <<>>
    /\ UNCHANGED <<uiVars, tableVars>>
    /\ UNCHANGED <<pc, error, inputVars, gdp, filtration_data, centralities_51x51,
                   centralities_52x52, rank_changes, commodity_centralities>>

ChangeColumns == {"betweenness_change", "eigenvector_change", "out_degree_change"}

\* the rank changes merged whenever they are provided, whatever the network type
NodeFrameAlways(centralities, coordTable, changes, network_type) ==
    LET df == InnerMerge(centralities, coordTable, "state_abbr", {"lat", "lon"})
    IN IF changes # <<>>
       THEN LeftMerge(df, changes[1], "state", ChangeColumns)
       ELSE df

\* df of create_network_map: the centralities that have coordinates, with the
\* columns of rank_changes when it is given (<<table>>, <<>> for None) and the
\* network type is '52x52'
NodeFrame(centralities, coordTable, changes, network_type) ==
    LET df == InnerMerge(centralities, coordTable, "state_abbr", {"lat", "lon"})
    IN IF changes # <<>> /\ network_type = "52x52"
       THEN LeftMerge(df, changes[1], "state", ChangeColumns)
       ELSE df

\* int(row[f'rank_{measure}']) in the hover text raises on a missing rank, as does
\* int(row['gdp_rank']) beside a GDP
create_network_map_raises(df, measure) ==
    \E i \in 1..Len(df) :
        \/ ~IsDefined(df[i]["rank_" \o measure])
        \/ IsDefined(df[i].gdp_billions) /\ ~IsDefined(df[i].gdp_rank)

\* has_rank_change and pd.notna(row[change_col]): the row's change, if any
ChangeOf(row, measure) ==
    IF (measure \o "_change") \in DOMAIN row THEN row[measure \o "_change"]
    ELSE Undefined

Abs(n) == IF n < 0 THEN 0 - n ELSE n

\* "Only show indicators for significant changes (|change| >= 3)"
IndicatorThreshold == 3

\* what the figure shows for a row of df: the node's state and value, the
\* 'vs domestic' line of its hover text (none without a change), and its indicator
\* label (none without a change of at least the threshold)
NodeLabel(row, measure) ==
    LET cell == ChangeOf(row, measure)
        change == Val(cell)
    IN [state |-> row.state,
        value |-> row[measure],
        vs_domestic |->
            IF ~IsDefined(cell) THEN <<>>
            ELSE <<[marker |-> IF change > 0 THEN "up"
                               ELSE IF change < 0 THEN "down" ELSE "same",
                    change |-> change]>>,
        indicator |->
            IF IsDefined(cell) /\ Abs(change) >= IndicatorThreshold
            THEN <<[marker |-> IF change > 0 THEN "up" ELSE "down",
                    change |-> Abs(change)]>>
            ELSE <<>>]

NodeLabels(df, measure) == [i \in 1..Len(df) |-> NodeLabel(df[i], measure)]

\* a call of create_network_map(centralities, coords, measure, show_edges=show_edges,
\* edge_data=list, rank_changes=changes, network_type=network_type)
CreateNetworkMapCall(centralities, measure, show_edges, list, changes, network_type) ==
    /\ pc = "serve"
    /\ LET df == NodeFrame(centralities, coords, changes, network_type)
           raised == create_network_map_raises(df, measure)
       IN /\ request' = [name |-> "create_network_map", show_edges |-> show_edges,
                         measure |-> measure, network_type |-> network_type,
                         provided |-> changes # <<>>, raised |-> raised,
                         caller |-> request]
          /\ edge_data' = list
          /\ edge_pairs' = IF raised THEN <<>> ELSE EdgePairsOf(show_edges, list)
          /\ node_labels' = IF raised THEN <<>> ELSE NodeLabels(df, measure)
    /\ returned' = <<>>
    /\ UNCHANGED <<uiVars, tableVars>>
    /\ UNCHANGED <<pc, error, inputVars, gdp, filtration_data, centralities_51x51,
                   centralities_52x52, rank_changes, commodity_centralities>>

\* a call of create_network_map(centralities_51x51, coords, show_edges=True,
\* edge_data=list), the other arguments at their defaults
CreateNetworkMap(list) ==
    CreateNetworkMapCall(centralities_51x51, "eigenvector", TRUE, list, <<>>, "51x51")

\* top_n=edge_count or 60: the slider's value itself, and 60 for the value 0
TopNOf(edge_count) == IF edge_count # 0 THEN edge_count ELSE DefaultTopN

\* df of the create_network_map call that ends update_map: rank_changes is always
\* passed, and network_type as the callback got it ('51x51' for None)
MapFrame(measure, filtration, network_type) ==
    NodeFrame(CentralitiesView(measure, filtration, network_type), coords,
              <<rank_changes>>, OrDefault(network_type, "51x51"))

MapNodes(measure, filtration, network_type) ==
    NodeLabels(MapFrame(measure, filtration, network_type),
               OrDefault(measure, "eigenvector"))

\* update_map raises where its filtration lookup does or where the
\* create_network_map call does
update_map_fails(measure, filtration, network_type) ==
    \/ update_map_raises(measure, filtration)
    \/ create_network_map_raises(MapFrame(measure, filtration, network_type),
                                 OrDefault(measure, "eigenvector"))

\* the update_map callback, with the create_network_map call that ends it
\* (dark_mode only picks colours and is left out)
UpdateMap(measure, filtration, show_edges, edge_count, selected_state, network_type) ==
    /\ pc = "serve"
    /\ LET args == [name |-> "update_map", measure |-> measure,
                    filtration |-> filtration, show_edges |-> show_edges,
                    edge_count |-> edge_count, selected_state |-> selected_state,
                    network_type |-> network_type]
       IN IF update_map_fails(measure, filtration, network_type)
          THEN /\ request' = args @@ [raised |-> TRUE]
               /\ edge_data' = <<>>
               /\ edge_pairs' = <<>>
               /\ node_labels' = <<>>
          ELSE LET centralities == CentralitiesView(measure, filtration, network_type)
                   selected ==
                       IF ~show_edges THEN <<>>
                       ELSE IF Truthy(selected_state)
                            THEN FocusEdges(network, coords, centralities,
                                            selected_state)
                            ELSE get_top_edges(network, coords, centralities,
                                                TopNOf(edge_count))
                   passed ==
                       IF show_edges /\ ~Truthy(selected_state)
                       THEN [top_n |-> TopNOf(edge_count)]
                       ELSE <<>>
               IN /\ request' = args @@ [raised |-> FALSE] @@ passed
                  /\ edge_data' = selected
                  /\ edge_pairs' = EdgePairsOf(show_edges, selected)
                  /\ node_labels' = MapNodes(measure, filtration, network_type)
    /\ returned' = <<>>
    /\ UNCHANGED <<uiVars, tableVars>>
    /\ UNCHANGED <<pc, error, inputVars, gdp, filtration_data, centralities_51x51,
                   centralities_52x52, rank_changes, commodity_centralities>>

\* every segment's rows, whatever the code asked for
get_centralities_unfiltered(commodity_code) ==
    IF commodity_code = "all" THEN centralities_51x51
    ELSE commodity_centralities

\* get_centralities_for_commodity: 'all' gives the domestic view, any other code the
\* rows of commodity_centralities with that code (none when no row has it)
get_centralities_for_commodity(commodity_code) ==
    IF commodity_code = "all" THEN centralities_51x51
    ELSE SelectRows(commodity_centralities, "commodity_code", commodity_code)

\* a call of get_centralities_for_commodity(commodity_code); nothing in it raises
GetCentralitiesForCommodity(commodity_code) ==
    /\ pc = "serve"
    /\ request' = [name |-> "get_centralities_for_commodity",
                   commodity_code |-> commodity_code, raised |-> FALSE]
    /\ returned' = get_centralities_for_commodity(commodity_code)
    /\ edge_data' = <<>>
    /\ edge_pairs' = <<>>
    /\ node_labels' = <<>>
    /\ UNCHANGED <<uiVars, tableVars>>
    /\ UNCHANGED <<pc, error, inputVars, gdp, filtration_data, centralities_51x51,
                   centralities_52x52, rank_changes, commodity_centralities>>

\* the display columns of update_rankings_table
RankingColumns == {"GDP", "Eigen", "OutDeg", "Betw"}

\* centralities_base[[...]].copy() with the columns renamed
RenameForRankings(row) ==
    [Abbr |-> row.state, State |-> row.state_name, GDP |-> row.gdp_rank,
     Eigen |-> row.rank_eigenvector, OutDeg |-> row.rank_out_degree,
     Betw |-> row.rank_betweenness]

\* sort_map[measure]; a measure outside the map is a KeyError
SortMap ==
    [eigenvector |-> "Eigen", out_degree |-> "OutDeg", betweenness |-> "Betw"]

\* df[col].astype(int) raises on a missing rank, sort_map[measure] on a measure it
\* does not hold
update_rankings_table_raises(centralities_base, measure) ==
    \/ \E i \in 1..Len(centralities_base), col \in RankingColumns :
           ~IsDefined(RenameForRankings(centralities_base[i])[col])
    \/ OrDefault(measure, "eigenvector") \notin DOMAIN SortMap

\* df.sort_values(col): ascending, and the default sort keeps no order among equal
\* ranks, so every ascending arrangement of the rows is a possible result
SortedBy(df, col) ==
    {[i \in 1..Len(df) |-> df[p[i]]] :
        p \in {q \in Permutations(1..Len(df)) :
                  \A i \in 1..(Len(df) - 1) :
                      Val(df[q[i]][col]) <= Val(df[q[i + 1]][col])}}

\* the frames update_rankings_table leaves behind if it renamed and cast the rows
\* of centralities_base itself
update_rankings_table_in_place(centralities_base) ==
    [centralities_base |->
         [i \in 1..Len(centralities_base) |->
             RenameForRankings(centralities_base[i]) @@ centralities_base[i]],
     df |-> [i \in 1..Len(centralities_base) |->
                RenameForRankings(centralities_base[i])]]

\* the frames of update_rankings_table before its sort: df is a copy of six columns
\* of centralities_base, and the renaming and the casts work on the copy
update_rankings_table(centralities_base) ==
    [centralities_base |-> centralities_base,
     df |-> [i \in 1..Len(centralities_base) |->
                RenameForRankings(centralities_base[i])]]

\* the callbacks still to run, but for one
Without(calls, callback) == {c \in calls : c.callback # callback}

\* the update_rankings_table callback (dark_mode and selected_state only pick
\* styles and are left out): the DataTable it returns replaces the one in the
\* container, with its data and without an active cell
UpdateRankingsTable(measure) ==
    /\ pc = "serve"
    /\ LET frames == update_rankings_table(centralities_51x51)
           raised == update_rankings_table_raises(centralities_51x51, measure)
       IN /\ request' = [name |-> "update_rankings_table", measure |-> measure,
                         raised |-> raised]
          /\ centralities_51x51' = frames.centralities_base
          /\ IF raised
             THEN /\ returned' = <<>>
                  /\ UNCHANGED <<table_data, active_cell, table_fresh>>
             ELSE /\ returned' \in
                      SortedBy(frames.df, SortMap[OrDefault(measure, "eigenvector")])
                  /\ table_data' = returned'
                  /\ active_cell' = <<>>
                  /\ table_fresh' = TRUE
    /\ pending' = Without(pending, "update_rankings_table")
    /\ edge_data' = <<>>
    /\ edge_pairs' = <<>>
    /\ node_labels' = <<>>
    /\ UNCHANGED uiVars
    /\ UNCHANGED <<pc, error, inputVars, gdp, filtration_data, centralities_52x52,
                   rank_changes, commodity_centralities>>

\* label_to_id[selected_state]: the ids whose label (the one of their last row) is
\* the selected one; the dict keeps the last of them
LabelToId(centralities_base, selected_state) ==
    LET id_to_label == IdToLabel(centralities_base)
        ids == Unique(Column(centralities_base, "state_id"))
    IN {k \in 1..Len(ids) : id_to_label[ids[k]] = selected_state}

RECURSIVE Partners(_, _, _)
\* the partners loop of update_drawer: an edge out of the state gives its target,
\* an edge into it its source
Partners(edges, state_id, id_to_label) ==
    IF edges = <<>> THEN <<>>
    ELSE LET e == Head(edges)
             rest == Partners(Tail(edges), state_id, id_to_label)
         IN IF e.source = state_id
            THEN <<[partner |-> id_to_label[e.target], weight |-> e.weight,
                    direction |-> "out"]>> \o rest
            ELSE IF e.target = state_id
                 THEN <<[partner |-> id_to_label[e.source], weight |-> e.weight,
                         direction |-> "in"]>> \o rest
                 ELSE rest

\* the places where update_drawer raises for a selected state: .iloc[0] without a
\* row, label_to_id without the label, int() of a missing rank, id_to_label
\* without a partner's id
update_drawer_raises(centralities_base, edges, selected_state, measure) ==
    LET rows == SelectRows(centralities_base, "state", selected_state)
        named == LabelToId(centralities_base, selected_state)
        ids == Unique(Column(centralities_base, "state_id"))
        state_id == ids[CHOOSE k \in named : \A o \in named : o <= k]
        id_to_label == IdToLabel(centralities_base)
    IN \/ rows = <<>>
       \/ named = {}
       \/ \E col \in {"rank_" \o OrDefault(measure, "eigenvector"), "gdp_rank",
                      "rank_eigenvector", "rank_out_degree", "rank_betweenness"} :
              ~IsDefined(rows[1][col])
       \/ \E i \in 1..Len(edges) :
              \/ edges[i].source = state_id /\ edges[i].target \notin DOMAIN id_to_label
              \/ /\ edges[i].source # state_id
                 /\ edges[i].target = state_id
                 /\ edges[i].source \notin DOMAIN id_to_label

\* the update_drawer callback (dark_mode and app_mode only pick styles and are left
\* out): without a selected state the drawer is hidden and no table is read; with
\* one, the drawer shows the state's row and its partners, heaviest first
UpdateDrawer(selected_state, measure) ==
    /\ pc = "serve"
    /\ LET args == [name |-> "update_drawer", selected_state |-> selected_state,
                    measure |-> measure]
       IN IF ~Truthy(selected_state)
          THEN /\ request' = args @@ [raised |-> FALSE]
               /\ returned' = <<>>
               /\ edge_data' = <<>>
          ELSE IF update_drawer_raises(centralities_51x51, network, selected_state,
                                       measure)
               THEN /\ request' = args @@ [raised |-> TRUE]
                    /\ returned' = <<>>
                    /\ edge_data' = <<>>
               ELSE LET named == LabelToId(centralities_51x51, selected_state)
                        ids == Unique(Column(centralities_51x51, "state_id"))
                        state_id == ids[CHOOSE k \in named : \A o \in named : o <= k]
                    IN /\ request' = args @@ [raised |-> FALSE]
                       /\ returned' = <<SelectRows(centralities_51x51, "state",
                                                   selected_state)[1]>>
                       /\ edge_data' = SortByWeightDesc(
                              Partners(network, state_id,
                                       IdToLabel(centralities_51x51)))
    /\ edge_pairs' = <<>>
    /\ node_labels' = <<>>
    /\ UNCHANGED <<uiVars, tableVars>>
    /\ UNCHANGED <<pc, error, inputVars, gdp, filtration_data, centralities_51x51,
                   centralities_52x52, rank_changes, commodity_centralities>>

\* the call returns: its locals are gone
Return ==
    /\ pc = "serve"
    /\ request.name # "none"
    /\ request' = NoRequest
    /\ edge_data' = <<>>
    /\ edge_pairs' = <<>>
    /\ node_labels' = <<>>
    /\ returned' = <<>>
    /\ UNCHANGED <<uiVars, tableVars>>
    /\ UNCHANGED <<pc, error, inputVars, gdp, filtration_data, centralities_51x51,
                   centralities_52x52, rank_changes, commodity_centralities>>

Idle == request.name = "none"

\* the state at the end of an import that raised nothing
ServeStart(gdpCsv, coordTable, filtrationCsv, csv51, csv52, commodityRaw, edges) ==
    LET gdpTable == load_gdp(gdpCsv)
        c51 == PrepareCentralities(csv51, gdpTable, coordTable)
        c52 == PrepareCentralities(csv52, gdpTable, coordTable)
    IN /\ pc = "serve"
       /\ error = "None"
       /\ gdp_csv = gdpCsv
       /\ coords = coordTable
       /\ filtration_csv = filtrationCsv
       /\ csv_51x51 = csv51
       /\ csv_52x52 = csv52
       /\ commodity_centralities_raw = commodityRaw
       /\ network = edges
       /\ gdp = gdpTable
       /\ filtration_data = load_filtration_data(filtrationCsv)
       /\ centralities_51x51 = c51
       /\ centralities_52x52 = c52
       /\ rank_changes = ComputeRankChangesTable(c51, c52)
       /\ commodity_centralities
              = PrepareCommodityCentralities(commodityRaw, gdpTable, coordTable)
       /\ request = NoRequest
       /\ edge_data = <<>>
       /\ edge_pairs = <<>>
       /\ node_labels = <<>>
       /\ returned = <<>>
       /\ LayoutStart

(***************************************************************************)
(* SpecEdges: get_top_edges, and create_network_map on its result, over    *)
(* every network of the bounds.  SpecAggregate: create_network_map on      *)
(* every edge list of the bounds.  SpecMap: update_map over every          *)
(* argument combination.                                                   *)
(***************************************************************************)
NetworkNodes == {IdOf("CA"), IdOf("IA"), IdOf("NY")}

EdgeWeights == {4, 10}

DirectedPairs == {p \in NetworkNodes \X NetworkNodes : p[1] # p[2]}

\* the edges of a DiGraph in iteration order: no pair twice
Networks(n) ==
    UNION {{[i \in 1..k |-> Edge(f[i][1][1], f[i][1][2], f[i][2])] :
            f \in {g \in [1..k -> DirectedPairs \X EdgeWeights] :
                      \A i, j \in 1..k : g[i][1] = g[j][1] => i = j}} :
           k \in 0..n}

\* state_coords.csv complete, and without the row of IA
CoordVariants ==
    {RefCoords, SelectSeq(RefCoords, LAMBDA row : row.state_abbr # "IA")}

\* the centralities handed to get_top_edges: measure, filtration, network type
DirectViews == {<<"eigenvector", 0, "51x51">>, <<"betweenness", 1, "51x51">>}

InitEdges ==
    \E edges \in Networks(MaxEdges) \cup {RefNetwork}, c \in CoordVariants :
        ServeStart(RefGdpCsv, c, RefFiltrationCsv, RefCsv51, RefCsv52,
                   RefCommodityRaw, edges)

AggregateSelected ==
    /\ request.name = "get_top_edges"
    /\ CreateNetworkMap(edge_data)

NextEdges ==
    \/ /\ Idle
       /\ \E top_n \in (0 - 1)..MaxTopN, v \in DirectViews :
              GetTopEdges(top_n, v[1], v[2], v[3])
    \/ AggregateSelected
    \/ Return

SpecEdges == InitEdges /\ [][NextEdges]_vars

EdgeLabels == {"CA", "IA", "NY"}

\* any list of edge dicts, the same direction possibly more than once
EdgeLists(n) ==
    LET lookup == CoordLookup(RefCoords)
    IN UNION {{[i \in 1..k |-> EdgeDict(f[i][1], f[i][2], f[i][3], lookup)] :
               f \in [1..k -> {e \in EdgeLabels \X EdgeLabels \X EdgeWeights :
                                   e[1] # e[2]}]} :
              k \in 0..n}

InitAggregate ==
    ServeStart(RefGdpCsv, RefCoords, RefFiltrationCsv, RefCsv51, RefCsv52,
               RefCommodityRaw, RefNetwork)

NextAggregate ==
    \/ /\ Idle
       /\ \E list \in EdgeLists(MaxListLen) : CreateNetworkMap(list)
    \/ Return

SpecAggregate == InitAggregate /\ [][NextAggregate]_vars

RECURSIVE PickEdges(_, _, _)
\* the pairs of a list that keep holds, each with a weight of its own
PickEdges(pairs, keep, n) ==
    IF pairs = <<>> THEN <<>>
    ELSE IF Head(pairs) \in keep
         THEN <<Edge(Head(pairs)[1], Head(pairs)[2], 10 * n)>>
              \o PickEdges(Tail(pairs), keep, n + 1)
         ELSE PickEdges(Tail(pairs), keep, n)

PairList ==
    << <<IdOf("CA"), IdOf("IA")>>, <<IdOf("IA"), IdOf("CA")>>,
       <<IdOf("CA"), IdOf("NY")>>, <<IdOf("NY"), IdOf("CA")>>,
       <<IdOf("IA"), IdOf("NY")>>, <<IdOf("NY"), IdOf("IA")>> >>

MapNetworks(n) ==
    {PickEdges(PairList, keep, 1) :
        keep \in {k \in SUBSET DirectedPairs : Cardinality(k) <= n}}

SliderValues == 0..6

MapMeasures == {"eigenvector", "betweenness"}

MapSelections == {None, "CA", "IA", Aggregate}

InitMap ==
    \E edges \in MapNetworks(MaxMapEdges), c \in CoordVariants :
        ServeStart(RefGdpCsv, c, RefFiltrationCsv, RefCsv51, RefCsv52,
                   RefCommodityRaw, edges)

NextMap ==
    /\ Idle
    /\ \E measure \in MapMeasures, filtration \in 0..3, show_edges \in BOOLEAN,
          edge_count \in SliderValues, selected_state \in MapSelections,
          network_type \in {"51x51", "52x52"} :
           UpdateMap(measure, filtration, show_edges, edge_count, selected_state,
                     network_type)

SpecMap == InitMap /\ [][NextMap \/ Return]_vars

(***************************************************************************)
(* Claims about edge selection.                                            *)
(***************************************************************************)
\* the centralities of the request being served
RequestView ==
    CentralitiesView(request.measure, request.filtration, request.network_type)

HasLabel(view, id) == \E r \in 1..Len(view) : view[r].state_id = id

LabelIn(view, id) == view[CHOOSE r \in 1..Len(view) : view[r].state_id = id].state

HasCoordinates(code) == \E r \in 1..Len(coords) : coords[r].state_abbr = code

CoordinatesOf(code) == coords[CHOOSE r \in 1..Len(coords) : coords[r].state_abbr = code]

\* both endpoints of network[i] have a label in the view and a coordinate entry
Complete(view, i) ==
    /\ HasLabel(view, network[i].source) /\ HasLabel(view, network[i].target)
    /\ HasCoordinates(LabelIn(view, network[i].source))
    /\ HasCoordinates(LabelIn(view, network[i].target))

\* network[i] with its labels and the coordinates of both endpoints
Drawn(view, i) ==
    LET s == LabelIn(view, network[i].source)
        t == LabelIn(view, network[i].target)
    IN [source |-> s, target |-> t, weight |-> network[i].weight,
        source_lat |-> CoordinatesOf(s).lat, source_lon |-> CoordinatesOf(s).lon,
        target_lat |-> CoordinatesOf(t).lat, target_lon |-> CoordinatesOf(t).lon]

\* the edges that come before network[i] by weight, equal weights in original order
Heavier(i) ==
    {j \in 1..Len(network) :
        \/ network[j].weight > network[i].weight
        \/ network[j].weight = network[i].weight /\ j < i}

\* C7: for N >= 0 get_top_edges returns the N edges of greatest weight (equal
\* weights in their original order), without those an endpoint of which has no
\* label or no coordinate entry, heaviest first, each with both endpoints'
\* coordinates.
C7_TopNEdges ==
    (request.name = "get_top_edges" /\ request.top_n >= 0) =>
        LET view == RequestView
            kept == {i \in 1..Len(network) :
                        Cardinality(Heavier(i)) < request.top_n /\ Complete(view, i)}
        IN /\ Len(edge_data) = Cardinality(kept)
           /\ \A i \in kept :
                  edge_data[1 + Cardinality(kept \cap Heavier(i))] = Drawn(view, i)

\* the top 1 of two complete edges of equal weight is the first of them
C7_Witness ==
    /\ request.name = "get_top_edges"
    /\ request.top_n = 1
    /\ Len(network) = 2
    /\ network[1].weight = network[2].weight
    /\ Complete(RequestView, 1) /\ Complete(RequestView, 2)
    /\ edge_data = <<Drawn(RequestView, 1)>>

\* C8: with show_edges and a selected state, update_map's edge list is exactly the
\* directed edges that the selected node is the source or target of and whose
\* endpoints both have coordinates, whatever the edge-count slider says; it is
\* empty when the selected code is not in the active centrality view.
C8_FocusEdges ==
    (/\ request.name = "update_map" /\ ~request.raised
     /\ request.show_edges /\ Truthy(request.selected_state)) =>
        LET view == RequestView
            Touches(i) ==
                \/ /\ HasLabel(view, network[i].source)
                   /\ LabelIn(view, network[i].source) = request.selected_state
                \/ /\ HasLabel(view, network[i].target)
                   /\ LabelIn(view, network[i].target) = request.selected_state
            focus == {i \in 1..Len(network) : Touches(i) /\ Complete(view, i)}
        IN /\ Len(edge_data) = Cardinality(focus)
           /\ \A i \in focus :
                  edge_data[1 + Cardinality({j \in focus : j < i})] = Drawn(view, i)
           /\ request.selected_state \notin StatesOf(view) => edge_data = <<>>

\* a selected state with two edges is drawn with both although the slider asks
\* for one edge
C8_Witness ==
    /\ request.name = "update_map" /\ ~request.raised
    /\ request.show_edges /\ request.selected_state = "CA"
    /\ request.edge_count = 1
    /\ Len(edge_data) = 2
    /\ edge_data[1].source = "CA" /\ edge_data[2].target = "CA"

(***************************************************************************)
(* Claims about edge aggregation.                                          *)
(***************************************************************************)
Endpoints(edge) == {edge.source, edge.target}

KeySet(pair) == {pair.pair_key[1], pair.pair_key[2]}

FlowDirections(pair) == {pair.flows[k].direction : k \in 1..Len(pair.flows)}

\* C9: create_network_map keeps exactly one record per unordered endpoint pair of
\* edge_data: A->B and B->A share a record, the record's flow entries are the
\* directions present (one entry for a pair with one direction), and no pair has
\* two records.
C9_OneRecordPerPair ==
    request.name = "create_network_map" =>
        /\ \A k, l \in 1..Len(edge_pairs) :
               KeySet(edge_pairs[k]) = KeySet(edge_pairs[l]) => k = l
        /\ {KeySet(edge_pairs[k]) : k \in 1..Len(edge_pairs)}
               = {Endpoints(edge_data[i]) : i \in 1..Len(edge_data)}
        /\ \A k \in 1..Len(edge_pairs) :
               /\ FlowDirections(edge_pairs[k])
                      = {Direction(edge_data[i]) :
                            i \in {j \in 1..Len(edge_data) :
                                      Endpoints(edge_data[j]) = KeySet(edge_pairs[k])}}
               /\ Len(edge_pairs[k].flows) = Cardinality(FlowDirections(edge_pairs[k]))

\* A->B, B->A and an edge of another pair give two records, one with two flow
\* entries and one with a single entry
C9_Witness ==
    /\ request.name = "create_network_map"
    /\ Len(edge_data) = 3
    /\ edge_data[1].source = edge_data[3].target
    /\ edge_data[1].target = edge_data[3].source
    /\ Len(edge_pairs) = 2
    /\ Len(edge_pairs[1].flows) = 2
    /\ Len(edge_pairs[2].flows) = 1

\* C10: the total_weight of all pair records adds up to the weights of all edges
\* of edge_data.
C10_WeightConserved ==
    request.name = "create_network_map" =>
        SeqSum([k \in 1..Len(edge_pairs) |-> TotalWeight(edge_pairs[k])])
            = SeqSum([i \in 1..Len(edge_data) |-> edge_data[i].weight])

(***************************************************************************)
(* The scenario A->B 10, B->A 4, C->D 100 with top-N = 2 (A, B, C, D are    *)
(* CA, IA, NY, TX in RefNetwork).                                          *)
(***************************************************************************)
\* create_network_map was handed get_top_edges(RefNetwork, ..., top_n=2) of the
\* full domestic view
ScenarioAggregated ==
    /\ request.name = "create_network_map"
    /\ request.caller.name = "get_top_edges"
    /\ request.caller.top_n = 2
    /\ request.caller.filtration = 0
    /\ network = RefNetwork
    /\ coords = RefCoords

FlowOf(edge) ==
    [direction |-> edge.source \o "->" \o edge.target, weight |-> edge.weight]

RecordsOf(a, b) ==
    {k \in 1..Len(edge_pairs) : KeySet(edge_pairs[k]) = {a, b}}

\* C11: the top 2 of A->B 10, B->A 4, C->D 100 are C->D and A->B, and aggregation
\* yields the record (A,B) with what was selected of it, total 10 and breakdown
\* {A->B: 10}, and the record (C,D) with total 100 and breakdown {C->D: 100}; in
\* general a record reports exactly the directions of its pair that are in the
\* selection, not those that are only in the edge table.
C11_SelectedDirectionsOnly ==
    /\ request.name = "create_network_map" =>
           \A k \in 1..Len(edge_pairs) :
               {edge_pairs[k].flows[f] : f \in 1..Len(edge_pairs[k].flows)}
                   = {FlowOf(edge_data[i]) :
                         i \in {j \in 1..Len(edge_data) :
                                   Endpoints(edge_data[j]) = KeySet(edge_pairs[k])}}
    /\ ScenarioAggregated =>
           /\ <<edge_data[1].source, edge_data[1].target>> = <<"NY", "TX">>
           /\ <<edge_data[2].source, edge_data[2].target>> = <<"CA", "IA">>
           /\ Len(edge_pairs) = 2
           /\ \A k \in RecordsOf("CA", "IA") :
                  /\ edge_pairs[k].flows = <<[direction |-> "CA->IA", weight |-> 10]>>
                  /\ TotalWeight(edge_pairs[k]) = 10
           /\ \A k \in RecordsOf("NY", "TX") :
                  /\ edge_pairs[k].flows = <<[direction |-> "NY->TX", weight |-> 100]>>
                  /\ TotalWeight(edge_pairs[k]) = 100
           /\ RecordsOf("CA", "IA") # {} /\ RecordsOf("NY", "TX") # {}

C11_Witness ==
    /\ ScenarioAggregated
    /\ edge_data[1].weight = 100 /\ edge_data[2].weight = 10
    /\ Len(edge_pairs) = 2

\* C11 as stated: in the scenario the record (A,B) has total 14 and the breakdown
\* {A->B: 10, B->A: 4}, and the record (C,D) has total 100.
C11_BothDirectionsReported ==
    ScenarioAggregated =>
        /\ \A k \in RecordsOf("CA", "IA") :
               /\ TotalWeight(edge_pairs[k]) = 14
               /\ {edge_pairs[k].flows[f] : f \in 1..Len(edge_pairs[k].flows)}
                      = {[direction |-> "CA->IA", weight |-> 10],
                         [direction |-> "IA->CA", weight |-> 4]}
        /\ \A k \in RecordsOf("NY", "TX") : TotalWeight(edge_pairs[k]) = 100

\* C12: get_top_edges returns the empty list whenever N <= 0 or the edge set is
\* empty.
C12_EmptyForNonPositiveN ==
    (request.name = "get_top_edges" /\ (request.top_n <= 0 \/ network = <<>>)) =>
        edge_data = <<>>

(***************************************************************************)
(* Claims about the ranks carried by the views.                            *)
(***************************************************************************)
\* a row with a score at least as high has a rank number at most as high
RanksFollowScores(table, score, rank) ==
    \A i, j \in 1..Len(table) :
        (/\ IsDefined(table[i][score]) /\ IsDefined(table[j][score])
         /\ Val(table[i][score]) >= Val(table[j][score]))
        => /\ IsDefined(table[i][rank]) /\ IsDefined(table[j][rank])
           /\ Val(table[i][rank]) <= Val(table[j][rank])

MeasureRanksFollowScores(table) ==
    \A measure \in {"betweenness", "eigenvector", "out_degree"} :
        RanksFollowScores(table, measure, "rank_" \o measure)

\* C13: in the base domestic and extended views, in every filtration level and in
\* every commodity segment, for every measure, a higher score never has a higher
\* rank number and equal scores have equal ranks.
C13_RanksFollowScores ==
    /\ MeasureRanksFollowScores(centralities_51x51)
    /\ MeasureRanksFollowScores(centralities_52x52)
    /\ \A label \in DOMAIN filtration_data :
           MeasureRanksFollowScores(filtration_data[label])
    /\ \A code \in CommodityCodesOf(commodity_centralities) :
           MeasureRanksFollowScores(
               SelectRows(commodity_centralities, "commodity_code", code))

\* the rank of a row is undefined exactly when its score is
RankDefinedWithScore(table, score, rank) ==
    \A i \in 1..Len(table) : IsDefined(table[i][rank]) <=> IsDefined(table[i][score])

\* a table of one row with a defined score ranks it 1
SingleRowRankedFirst(table, score, rank) ==
    (Len(table) = 1 /\ IsDefined(table[1][score])) => table[1][rank] = Def(1)

RankedWithMissing(table, score, rank) ==
    /\ RankDefinedWithScore(table, score, rank)
    /\ SingleRowRankedFirst(table, score, rank)

\* C14: once load_gdp has run the GDP table is there, whatever scores are missing,
\* and in it, in every filtration level and in every commodity segment a rank is
\* undefined exactly when its score is undefined and a single row with a score
\* has rank 1.
C14_MissingScoresRankUndefined ==
    /\ pc \notin {"load_filtration_data", "load_gdp"} =>
           /\ Len(gdp) = Len(gdp_csv)
           /\ RankedWithMissing(gdp, "gdp_billions", "gdp_rank")
    /\ \A label \in DOMAIN filtration_data :
       \A measure \in {"betweenness", "eigenvector", "out_degree"} :
           RankedWithMissing(filtration_data[label], measure, "rank_" \o measure)
    /\ \A code \in CommodityCodesOf(commodity_centralities) :
       \A measure \in {"betweenness", "eigenvector", "out_degree"} :
           RankedWithMissing(SelectRows(commodity_centralities, "commodity_code", code),
                             measure, "rank_" \o measure)

\* the rank step applied to a table leaves the table as it is
RankStepFixes(table) == RankMeasures(table) = table

\* C15: applying the rank step again to a table that carries its rank columns (a
\* filtration level, a commodity segment) gives the same table: the same columns
\* and the same ranks.
C15_RankStepIdempotent ==
    /\ \A label \in DOMAIN filtration_data : RankStepFixes(filtration_data[label])
    /\ \A code \in CommodityCodesOf(commodity_centralities) :
           RankStepFixes(SelectRows(commodity_centralities, "commodity_code", code))

\* a filtration level with a tie, a missing score and two different ranks is ranked
\* again
C15_Witness ==
    \E label \in DOMAIN filtration_data :
        LET table == filtration_data[label]
        IN /\ Len(table) = 3
           /\ table[1].rank_eigenvector = table[2].rank_eigenvector
           /\ table[1].rank_eigenvector # table[3].rank_eigenvector
           /\ \E i \in 1..3 : ~IsDefined(table[i].rank_betweenness)
           /\ DOMAIN RankMeasures(table)[1] = DOMAIN table[1]
           /\ RankStepFixes(table)

(***************************************************************************)
(* SpecSegments: the import over every commodity file of the bounds, then  *)
(* get_centralities_for_commodity for codes the file has, a code it may    *)
(* lack, a code no file has, and 'all'.                                    *)
(***************************************************************************)
RequestedCodes == CommodityCodes \cup {"99", "all"}

NextSegments ==
    \/ ImportNext
    \/ /\ Idle
       /\ \E commodity_code \in RequestedCodes :
              GetCentralitiesForCommodity(commodity_code)
    \/ Return

SpecSegments == InitCommodity /\ [][NextSegments]_vars

\* the states that have a row with the code in commodity_centralities.csv
RawStatesOf(commodity_code) ==
    StatesOf(SelectRows(commodity_centralities_raw, "commodity_code", commodity_code))

SegmentRequested ==
    /\ request.name = "get_centralities_for_commodity"
    /\ request.commodity_code # "all"

\* C16: for a code other than 'all', the view get_centralities_for_commodity
\* returns has exactly the states that have a row with that code in the raw
\* commodity table, and no row of another code.
C16_SegmentHasItsStatesOnly ==
    SegmentRequested =>
        /\ StatesOf(returned) = RawStatesOf(request.commodity_code)
        /\ \A i \in 1..Len(returned) :
               returned[i].commodity_code = request.commodity_code

\* a state that is only in another segment is not in the view of the code asked for
C16_Witness ==
    /\ SegmentRequested
    /\ returned # <<>>
    /\ \E state \in StatesOf(commodity_centralities) : state \notin StatesOf(returned)

\* C17: a code other than 'all' without a row in the commodity table makes
\* get_centralities_for_commodity raise instead of returning an empty view, and
\* 'all' never raises and returns the domestic view.
C17_EmptySegmentRaises ==
    request.name = "get_centralities_for_commodity" =>
        IF request.commodity_code = "all"
        THEN ~request.raised /\ returned = centralities_51x51
        ELSE RawStatesOf(request.commodity_code) = {} => request.raised

(***************************************************************************)
(* SpecColumns: the import over filtration and commodity files that lack   *)
(* one of the measure columns, or none.                                    *)
(***************************************************************************)
\* the table without the column col
DropColumn(table, col) ==
    [i \in 1..Len(table) |-> [c \in DOMAIN table[i] \ {col} |-> table[i][c]]]

DroppedColumns == {"betweenness", "eigenvector", "out_degree", "none"}

InitColumns ==
    \/ \E t \in FiltrationCsvTables(MaxColumnRows), col \in DroppedColumns :
           ImportStart(RefGdpCsv, RefCoords, DropColumn(t, col), RefCsv51, RefCsv52,
                       RefCommodityRaw, RefNetwork)
    \/ \E t \in CommodityRawTables(MaxColumnRows), col \in DroppedColumns :
           ImportStart(RefGdpCsv, RefCoords, RefFiltrationCsv, RefCsv51, RefCsv52,
                       DropColumn(t, col), RefNetwork)

SpecColumns == InitColumns /\ [][ImportNext]_vars

\* a measure is not among the columns of the table
MeasureAbsent(table) ==
    \E i \in 1..Len(table) :
        {"betweenness", "eigenvector", "out_degree"} \ DOMAIN table[i] # {}

\* C18: when the filtration file or the commodity file lacks a measure column, the
\* rank annotation fails with ValidationError and leaves no table behind.
C18_MissingMeasureValidationError ==
    /\ (pc # "load_filtration_data" /\ MeasureAbsent(filtration_csv)) =>
           /\ pc = "raised"
           /\ error = "ValidationError"
           /\ filtration_data = <<>>
    /\ (pc \in {"serve", "raised"} /\ MeasureAbsent(commodity_centralities_raw)) =>
           /\ pc = "raised"
           /\ error = "ValidationError"
           /\ commodity_centralities = <<>>

(***************************************************************************)
(* SpecKeys: the import over centrality files in which a code may be       *)
(* listed twice and over files without the key column.                     *)
(***************************************************************************)
KeyRows == {VariantRow(StateAt(i), i) : i \in 1..2}

\* rows in any order, a code possibly more than once
KeyTables(n) == UNION {[1..k -> KeyRows] : k \in 0..n}

InitKeys ==
    \E t51 \in KeyTables(MaxKeyRows), t52 \in KeyTables(MaxKeyRows),
       c51 \in {"state", "none"}, c52 \in {"state", "none"} :
        ImportStart(RefGdpCsv, RefCoords, RefFiltrationCsv,
                    DropColumn(t51, c51), DropColumn(t52, c52),
                    RefCommodityRaw, RefNetwork)

SpecKeys == InitKeys /\ [][ImportNext]_vars

\* the table has no key column, or a code in it twice
KeyBroken(table) ==
    \/ \E i \in 1..Len(table) : "state" \notin DOMAIN table[i]
    \/ \E i, j \in 1..Len(table) :
           /\ i # j
           /\ "state" \in DOMAIN table[i] /\ "state" \in DOMAIN table[j]
           /\ table[i].state = table[j].state

\* C19: when the key column of a centrality file is missing or lists a code twice,
\* _prepare_centralities fails with JoinError and no joined view is built from it.
C19_BrokenKeyJoinError ==
    /\ (/\ pc \notin {"load_filtration_data", "load_gdp", "prepare_51x51"}
        /\ KeyBroken(csv_51x51)) =>
           /\ pc = "raised"
           /\ error = "JoinError"
           /\ centralities_51x51 = <<>>
    /\ (/\ pc \notin {"load_filtration_data", "load_gdp", "prepare_51x51",
                      "prepare_52x52"}
        /\ ~KeyBroken(csv_51x51)
        /\ KeyBroken(csv_52x52)) =>
           /\ pc = "raised"
           /\ error = "JoinError"
           /\ centralities_52x52 = <<>>

(***************************************************************************)
(* SpecViews: the import, then every derived-view request in any order.    *)
(***************************************************************************)
\* the selected-measure store: unset, or one of the three measure buttons
ViewMeasures == {None, "eigenvector", "out_degree", "betweenness"}

InitViews ==
    \E c \in CoordVariants :
        ImportStart(RefGdpCsv, c, RefFiltrationCsv, RefCsv51, RefCsv52,
                    RefCommodityRaw, RefNetwork)

NextViews ==
    \/ ImportNext
    \/ NextMap
    \/ /\ Idle
       /\ \E selected_state \in MapSelections, measure \in ViewMeasures :
              UpdateDrawer(selected_state, measure)
    \/ /\ Idle
       /\ \E measure \in ViewMeasures : UpdateRankingsTable(measure)
    \/ /\ Idle
       /\ \E top_n \in (0 - 1)..MaxTopN, v \in DirectViews :
              GetTopEdges(top_n, v[1], v[2], v[3])
    \/ /\ Idle
       /\ \E commodity_code \in RequestedCodes :
              GetCentralitiesForCommodity(commodity_code)
    \/ /\ Idle
       /\ \E list \in EdgeLists(MaxListLen) : CreateNetworkMap(list)
    \/ Return

SpecViews == InitViews /\ [][NextViews]_vars

\* the tables loaded once at import and held for the life of the process
baseTables ==
    <<centralities_51x51, centralities_52x52, filtration_data, gdp, coords,
      network, rank_changes>>

\* C20: once the import has ended, no step of a derived-view request (update_map,
\* update_drawer, update_rankings_table, get_top_edges,
\* get_centralities_for_commodity, create_network_map) or of its return changes a
\* base table: every base table keeps the value it had at the end of loading
C20_BaseTablesKeepLoadedValue ==
    [][pc = "serve" => UNCHANGED baseTables]_vars

\* the rankings table has been built, sorted, from a centralities_51x51 that still
\* is what the import computed
C20_Witness ==
    /\ pc = "serve"
    /\ request.name = "update_rankings_table"
    /\ ~request.raised
    /\ Len(returned) = Len(centralities_51x51)
    /\ Len(returned) > 1
    /\ "Abbr" \in DOMAIN returned[1]
    /\ centralities_51x51 = PrepareCentralities(csv_51x51, gdp, coords)

(***************************************************************************)
(* Claims about the controls.                                              *)
(***************************************************************************)
\* the marks of the 'Top N Flows' slider; the last one reads 'All'
SliderMarks(position) ==
    CASE position = 0 -> 20
      [] position = 1 -> 50
      [] position = 2 -> 100
      [] position = 3 -> 200
      [] position = 4 -> 500
      [] position = 5 -> 1000
      [] position = 6 -> Len(network)

\* update_map has asked get_top_edges for the heaviest edges
TopNMode ==
    /\ request.name = "update_map"
    /\ ~request.raised
    /\ request.show_edges
    /\ ~Truthy(request.selected_state)

\* C21: in top-N mode the top_n that update_map passes to get_top_edges is the
\* number on the slider's mark: 20, 50, 100, 200, 500, 1000 for the positions
\* 0..5 and every edge for position 6
C21_TopNFollowsMarks ==
    TopNMode => request.top_n = SliderMarks(request.edge_count)

(***************************************************************************)
(* SpecHover: create_network_map over edge lists of distinct state pairs,  *)
(* short ones and ones around the size the hover layer is said to stop at. *)
(***************************************************************************)
\* "capped at 1000 edges for performance"
HoverCap == 1000

MaxHoverShort == 100

\* the k-th pair of codes (i < j) counted row by row from the first code
RECURSIVE PairAt(_, _)
PairAt(k, i) ==
    IF k <= Len(Alphabet) - i THEN <<i, i + k>>
    ELSE PairAt(k - (Len(Alphabet) - i), i + 1)

\* an edge dict between the two codes of the k-th pair
HoverEdge(k) ==
    LET pair == PairAt(k, 1)
    IN [source |-> Alphabet[pair[1]], target |-> Alphabet[pair[2]], weight |-> 10,
        source_lat |-> pair[1], source_lon |-> 0 - pair[1],
        target_lat |-> pair[2], target_lon |-> 0 - pair[2]]

\* edge_data with one edge for each of the first n pairs
HoverList(n) == [k \in 1..n |-> HoverEdge(k)]

HoverLengths == (0..MaxHoverShort) \cup {HoverCap - 1, HoverCap, HoverCap + 1}

NextHover ==
    \/ /\ Idle
       /\ \E n \in HoverLengths : CreateNetworkMap(HoverList(n))
    \/ Return

SpecHover == InitAggregate /\ [][NextHover]_vars

\* C22: the map never renders more than 1000 edge line traces and hover
\* midpoints, one of each per record of edge_pairs, whatever edge_data
\* create_network_map is given
C22_HoverLayerCapped == Len(edge_pairs) <= HoverCap

(***************************************************************************)
(* The page: the callbacks of register_callbacks that write a store or a   *)
(* property another callback reads, and the inputs that set them off.      *)
(* A callback runs once for the input that triggered it, after every       *)
(* pending callback that writes one of its inputs.  update_map,            *)
(* update_drawer, update_interpretation, update_theme, toggle_edge_count    *)
(* and toggle_bottom_sheet write nothing that a callback reads; they are   *)
(* not dispatched here.                                                    *)
(***************************************************************************)
Call(callback, triggered) == [callback |-> callback, triggered |-> triggered]

IsPending(callback) == \E c \in pending : c.callback = callback

\* ctx.triggered_id of a pending callback
TriggerOf(callback) == (CHOOSE c \in pending : c.callback = callback).triggered

\* a callback that is already waiting is not added a second time
Enqueue(calls, callback, triggered) ==
    IF \E c \in calls : c.callback = callback THEN calls
    ELSE calls \cup {Call(callback, triggered)}

\* the callbacks whose Output is an Input of the callback
WritersOf(callback) ==
    CASE callback = "toggle_stats_display" -> {"toggle_app_mode", "handle_state_selection"}
      [] callback = "update_rankings_table" ->
             {"update_measure_buttons", "handle_state_selection"}
      [] OTHER -> {}

\* the callback is pending and no pending callback has yet to write one of its inputs
Ready(callback) ==
    /\ pc = "serve"
    /\ IsPending(callback)
    /\ \A w \in WritersOf(callback) : ~IsPending(w)

\* a click that selects the state it is on, selected already or not
Select(new_state, current_state) == new_state

\* if new_state == current_state: return None; return new_state
Toggle(new_state, current_state) ==
    IF new_state = current_state THEN NoValue ELSE new_state

\* a handler that looks at the clickData only when the map set it off: a call set
\* off by the table without a row of its data leaves the selection as it was
handle_state_selection_by_trigger(triggered, click_data, cell, table, current_state) ==
    IF triggered = "close-drawer" THEN NoValue
    ELSE IF triggered = "rankings-table"
         THEN IF cell # <<>> /\ table # <<>> /\ cell[1].row < Len(table)
              THEN Toggle(table[cell[1].row + 1].Abbr, current_state)
              ELSE current_state
         ELSE IF /\ click_data # <<>>
                 /\ click_data[1].points # <<>>
                 /\ click_data[1].points[1].customdata # <<>>
              THEN Toggle(click_data[1].points[1].customdata[1], current_state)
              ELSE current_state

\* the body of handle_state_selection; click_data and active_cell are <<>> for None
\* and <<value>> otherwise, a point's customdata <<>> when the point has none
handle_state_selection(triggered, click_data, cell, table, current_state) ==
    IF triggered = "close-drawer" THEN NoValue
    ELSE IF /\ triggered = "rankings-table"
            /\ cell # <<>>
            /\ table # <<>>
            /\ cell[1].row < Len(table)
         THEN Toggle(table[cell[1].row + 1].Abbr, current_state)
         ELSE IF /\ click_data # <<>>
                 /\ click_data[1].points # <<>>
                 /\ click_data[1].points[1].customdata # <<>>
              THEN Toggle(click_data[1].points[1].customdata[1], current_state)
              ELSE current_state

\* handle_state_selection runs and writes selected-state, which sets off the
\* callbacks that read it
HandleStateSelection ==
    /\ Ready("handle_state_selection")
    /\ LET triggered == TriggerOf("handle_state_selection")
           result == handle_state_selection(triggered, clickData, active_cell,
                                            table_data, store_selected_state)
       IN /\ store_selected_state' = result
          /\ request' = [name |-> "handle_state_selection", triggered |-> triggered,
                         click_data |-> clickData, active_cell |-> active_cell,
                         table_data |-> table_data,
                         current_state |-> store_selected_state, result |-> result]
    /\ pending' = Enqueue(Enqueue(Without(pending, "handle_state_selection"),
                                  "update_rankings_table", "selected-state"),
                          "toggle_stats_display", "selected-state")
    /\ UNCHANGED <<store_selected_measure, store_network_type, store_app_mode,
                   dark_mode_toggle, clickData, btn_outline, btn_color, display, event,
                   active_cell, table_data, table_fresh>>
    /\ UNCHANGED <<pc, error, inputVars, gdp, filtration_data, centralities_51x51,
                   centralities_52x52, rank_changes, commodity_centralities,
                   edge_data, edge_pairs, returned, node_labels>>

\* btn_color = 'light' if dark_mode else 'secondary'
ButtonColor(dark_mode) == IF dark_mode THEN "light" ELSE "secondary"

\* the measure kept when the trigger is none of the three buttons
SelectedMeasureKept(triggered) ==
    IF triggered = "btn-outdeg" THEN "out_degree"
    ELSE IF triggered = "btn-between" THEN "betweenness"
    ELSE IF triggered = "btn-eigen" THEN "eigenvector"
    ELSE store_selected_measure

\* selected of update_measure_buttons
SelectedMeasure(triggered) ==
    IF triggered = "btn-outdeg" THEN "out_degree"
    ELSE IF triggered = "btn-between" THEN "betweenness"
    ELSE "eigenvector"

\* the filtration section shown for every measure but eigenvector
FiltrationStyleWide(selected) == IF selected # "eigenvector" THEN "block" ELSE "none"

\* filtration_style of update_measure_buttons
FiltrationStyle(selected) == IF selected = "betweenness" THEN "block" ELSE "none"

\* update_measure_buttons runs: three colors, three outlines, the filtration
\* section's style and selected-measure
UpdateMeasureButtons ==
    /\ Ready("update_measure_buttons")
    /\ LET triggered == TriggerOf("update_measure_buttons")
           selected == SelectedMeasure(triggered)
           color == ButtonColor(dark_mode_toggle)
       IN /\ btn_color' = [btn_color EXCEPT !["btn-eigen"] = color,
                                            !["btn-outdeg"] = color,
                                            !["btn-between"] = color]
          /\ btn_outline' = [btn_outline EXCEPT
                                !["btn-eigen"] = selected # "eigenvector",
                                !["btn-outdeg"] = selected # "out_degree",
                                !["btn-between"] = selected # "betweenness"]
          /\ display' = [display EXCEPT !["filtration-section"] = FiltrationStyle(selected)]
          /\ store_selected_measure' = selected
          /\ request' = [name |-> "update_measure_buttons", triggered |-> triggered,
                         result |-> selected]
    /\ pending' = Enqueue(Without(pending, "update_measure_buttons"),
                          "update_rankings_table", "selected-measure")
    /\ UNCHANGED <<store_selected_state, store_network_type, store_app_mode,
                   dark_mode_toggle, clickData, event, active_cell, table_data,
                   table_fresh>>
    /\ UNCHANGED <<pc, error, inputVars, gdp, filtration_data, centralities_51x51,
                   centralities_52x52, rank_changes, commodity_centralities,
                   edge_data, edge_pairs, returned, node_labels>>

\* the network type of toggle_network_type
NetworkTypeOf(triggered) == IF triggered = "btn-52x52" THEN "52x52" ELSE "51x51"

\* toggle_network_type runs
ToggleNetworkType ==
    /\ Ready("toggle_network_type")
    /\ LET triggered == TriggerOf("toggle_network_type")
           type == NetworkTypeOf(triggered)
           color == ButtonColor(dark_mode_toggle)
       IN /\ btn_outline' = [btn_outline EXCEPT !["btn-51x51"] = type = "52x52",
                                                !["btn-52x52"] = type # "52x52"]
          /\ btn_color' = [btn_color EXCEPT !["btn-51x51"] = color,
                                            !["btn-52x52"] = color]
          /\ store_network_type' = type
          /\ request' = [name |-> "toggle_network_type", triggered |-> triggered,
                         result |-> type]
    /\ pending' = Without(pending, "toggle_network_type")
    /\ UNCHANGED <<store_selected_state, store_selected_measure, store_app_mode,
                   dark_mode_toggle, clickData, display, event, active_cell, table_data,
                   table_fresh>>
    /\ UNCHANGED <<pc, error, inputVars, gdp, filtration_data, centralities_51x51,
                   centralities_52x52, rank_changes, commodity_centralities,
                   edge_data, edge_pairs, returned, node_labels>>

\* the mode of toggle_app_mode
AppModeOf(triggered) == IF triggered = "btn-analyze" THEN "analyze" ELSE "explore"

\* toggle_app_mode runs and writes app-mode, which sets off toggle_stats_display
ToggleAppMode ==
    /\ Ready("toggle_app_mode")
    /\ LET triggered == TriggerOf("toggle_app_mode")
           mode == AppModeOf(triggered)
           color == ButtonColor(dark_mode_toggle)
       IN /\ btn_outline' = [btn_outline EXCEPT !["btn-explore"] = mode = "analyze",
                                                !["btn-analyze"] = mode # "analyze"]
          /\ btn_color' = [btn_color EXCEPT !["btn-explore"] = color,
                                            !["btn-analyze"] = color]
          /\ store_app_mode' = mode
          /\ request' = [name |-> "toggle_app_mode", triggered |-> triggered,
                         result |-> mode]
    /\ pending' = Enqueue(Without(pending, "toggle_app_mode"),
                          "toggle_stats_display", "app-mode")
    /\ UNCHANGED <<store_selected_state, store_selected_measure, store_network_type,
                   dark_mode_toggle, clickData, display, event, active_cell, table_data,
                   table_fresh>>
    /\ UNCHANGED <<pc, error, inputVars, gdp, filtration_data, centralities_51x51,
                   centralities_52x52, rank_changes, commodity_centralities,
                   edge_data, edge_pairs, returned, node_labels>>

\* the badge shown in every mode, beside the panel in 'analyze'
toggle_stats_display_badge_kept(mode, selected_state) ==
    IF Truthy(selected_state) THEN [badge |-> "none", panel |-> "none"]
    ELSE IF mode = "analyze" THEN [badge |-> "block", panel |-> "block"]
    ELSE [badge |-> "block", panel |-> "none"]

\* the display of the two styles toggle_stats_display returns
toggle_stats_display(mode, selected_state) ==
    IF Truthy(selected_state) THEN [badge |-> "none", panel |-> "none"]
    ELSE IF mode = "analyze" THEN [badge |-> "none", panel |-> "block"]
    ELSE [badge |-> "block", panel |-> "none"]

\* toggle_stats_display runs
ToggleStatsDisplay ==
    /\ Ready("toggle_stats_display")
    /\ LET styles == toggle_stats_display(store_app_mode, store_selected_state)
       IN /\ display' = [display EXCEPT !["stats-badge"] = styles.badge,
                                        !["stats-panel-expanded"] = styles.panel]
          /\ request' = [name |-> "toggle_stats_display", mode |-> store_app_mode,
                         selected_state |-> store_selected_state]
    /\ pending' = Without(pending, "toggle_stats_display")
    /\ UNCHANGED <<store_selected_state, store_selected_measure, store_network_type,
                   store_app_mode, dark_mode_toggle, clickData, btn_outline, btn_color,
                   event, active_cell, table_data, table_fresh>>
    /\ UNCHANGED <<pc, error, inputVars, gdp, filtration_data, centralities_51x51,
                   centralities_52x52, rank_changes, commodity_centralities,
                   edge_data, edge_pairs, returned, node_labels>>

\* update_rankings_table runs on the measure in the store
RenderRankingsTable ==
    /\ Ready("update_rankings_table")
    /\ UpdateRankingsTable(store_selected_measure)

\* an input reaches the page while no callback is waiting: it sets off the
\* callbacks that have it as Input
Deliver(id, calls) ==
    /\ pc = "serve"
    /\ pending = {}
    /\ event' = [id |-> id, selected_measure |-> store_selected_measure,
                 network_type |-> store_network_type, app_mode |-> store_app_mode]
    /\ pending' = calls
    /\ UNCHANGED <<pc, error, inputVars, gdp, filtration_data, centralities_51x51,
                   centralities_52x52, rank_changes, commodity_centralities,
                   requestVars>>

\* the page is opened: every callback but handle_state_selection
\* (prevent_initial_call=True) runs once, triggered by nothing
PageLoad ==
    /\ event.id = "none"
    /\ Deliver("page-load",
               {Call(c, NoValue) :
                   c \in {"toggle_app_mode", "toggle_network_type",
                          "toggle_stats_display", "update_measure_buttons",
                          "update_rankings_table"}})
    /\ UNCHANGED <<store_selected_state, store_selected_measure, store_network_type,
                   store_app_mode, dark_mode_toggle, clickData, btn_outline, btn_color,
                   display, active_cell, table_data, table_fresh>>

Loaded == event.id # "none"

\* the clicks on the map: on the marker of a state (its customdata is the code), or
\* on a flow's line or midpoint, which carry no customdata
MapClicks ==
    {<<[points |-> <<[customdata |-> <<code>>]>>]>> : code \in {"CA", "IA"}}
        \cup {<<[points |-> <<[customdata |-> <<>>]>>]>>}

MapClick(click) ==
    /\ Loaded
    /\ clickData' = click
    /\ Deliver("network-map", {Call("handle_state_selection", "network-map")})
    /\ UNCHANGED <<store_selected_state, store_selected_measure, store_network_type,
                   store_app_mode, dark_mode_toggle, btn_outline, btn_color, display,
                   active_cell, table_data, table_fresh>>

MaxClickRow == 1

\* a click on a cell of the table: a row of the table's data, or a row past its end
TableClick(row) ==
    /\ Loaded
    /\ active_cell' = <<[row |-> row]>>
    /\ Deliver("rankings-table", {Call("handle_state_selection", "rankings-table")})
    /\ UNCHANGED <<store_selected_state, store_selected_measure, store_network_type,
                   store_app_mode, dark_mode_toggle, clickData, btn_outline, btn_color,
                   display, table_data, table_fresh>>

\* the table that update_rankings_table returned is in the page: its active_cell,
\* None, is an Input of handle_state_selection
TableInserted ==
    /\ Loaded
    /\ table_fresh
    /\ table_fresh' = FALSE
    /\ Deliver("rankings-table-container",
               {Call("handle_state_selection", "rankings-table")})
    /\ UNCHANGED <<store_selected_state, store_selected_measure, store_network_type,
                   store_app_mode, dark_mode_toggle, clickData, btn_outline, btn_color,
                   display, active_cell, table_data>>

\* the callback that has the button's n_clicks as Input
CallbackOf(button) ==
    IF button \in {"btn-eigen", "btn-outdeg", "btn-between"} THEN "update_measure_buttons"
    ELSE IF button \in {"btn-51x51", "btn-52x52"} THEN "toggle_network_type"
    ELSE "toggle_app_mode"

\* a click on close-drawer or on one of the seven buttons
ButtonClick(button) ==
    /\ Loaded
    /\ Deliver(button,
               IF button = "close-drawer"
               THEN {Call("handle_state_selection", "close-drawer")}
               ELSE {Call(CallbackOf(button), button)})
    /\ UNCHANGED <<store_selected_state, store_selected_measure, store_network_type,
                   store_app_mode, dark_mode_toggle, clickData, btn_outline, btn_color,
                   display, active_cell, table_data, table_fresh>>

\* the theme switch is flipped: its value is an Input of these callbacks
DarkModeToggle ==
    /\ Loaded
    /\ dark_mode_toggle' = ~dark_mode_toggle
    /\ Deliver("dark-mode-toggle",
               {Call(c, "dark-mode-toggle") :
                   c \in {"toggle_app_mode", "toggle_network_type",
                          "toggle_stats_display", "update_measure_buttons",
                          "update_rankings_table"}})
    /\ UNCHANGED <<store_selected_state, store_selected_measure, store_network_type,
                   store_app_mode, clickData, btn_outline, btn_color, display,
                   active_cell, table_data, table_fresh>>

(***************************************************************************)
(* SpecPage: the page after the import, under every order of clicks.       *)
(***************************************************************************)
NextPage ==
    \/ PageLoad
    \/ \E click \in MapClicks : MapClick(click)
    \/ \E row \in 0..MaxClickRow : TableClick(row)
    \/ TableClick(Len(table_data))
    \/ TableInserted
    \/ \E button \in Buttons \cup {"close-drawer"} : ButtonClick(button)
    \/ DarkModeToggle
    \/ HandleStateSelection
    \/ UpdateMeasureButtons
    \/ ToggleNetworkType
    \/ ToggleAppMode
    \/ ToggleStatsDisplay
    \/ RenderRankingsTable

SpecPage == InitAggregate /\ [][NextPage]_vars

(***************************************************************************)
(* Claims about the selection.                                             *)
(***************************************************************************)
\* the last callback run was handle_state_selection
Selected == request.name = "handle_state_selection"

\* the call was set off by a click on a row that the table's data has
RowClicked ==
    /\ request.triggered = "rankings-table"
    /\ request.active_cell # <<>>
    /\ request.active_cell[1].row < Len(request.table_data)

\* the clickData of the call names a state
ClickNamesState ==
    /\ request.click_data # <<>>
    /\ request.click_data[1].points # <<>>
    /\ request.click_data[1].points[1].customdata # <<>>

\* the call was set off by a click on a state's marker on the map
MarkerClicked == request.triggered = "network-map" /\ ClickNamesState

\* the state the click of the call is on
ClickedState ==
    IF RowClicked THEN request.table_data[request.active_cell[1].row + 1].Abbr
    ELSE request.click_data[1].points[1].customdata[1]

MeasureButtons == {"btn-eigen", "btn-outdeg", "btn-between"}

\* the button that stands for a measure
ButtonOf(measure) ==
    CASE measure = "eigenvector" -> "btn-eigen"
      [] measure = "out_degree" -> "btn-outdeg"
      [] measure = "betweenness" -> "btn-between"

\* C24: when update_measure_buttons has run, whatever triggered it, exactly one of
\* the three measure buttons is solid (outline = False), it is the button of the
\* measure written to selected-measure, and the filtration section is displayed
\* exactly when that measure is betweenness
C24_OneSolidMeasureButton ==
    request.name = "update_measure_buttons" =>
        /\ store_selected_measure = request.result
        /\ Cardinality({b \in MeasureButtons : ~btn_outline[b]}) = 1
        /\ ~btn_outline[ButtonOf(store_selected_measure)]
        /\ display["filtration-section"] = "block"
               <=> store_selected_measure = "betweenness"

\* a click on Out-Degree has made that button the solid one, with the filtration
\* section hidden
C24_Witness ==
    /\ request.name = "update_measure_buttons"
    /\ request.triggered = "btn-outdeg"
    /\ store_selected_measure = "out_degree"
    /\ ~btn_outline["btn-outdeg"]
    /\ display["filtration-section"] = "none"

\* toggle_stats_display has run on the mode and the selection that the stores hold
StatsDisplayed == Loaded /\ ~IsPending("toggle_stats_display")

IndicatorCsv52 ==
    << CsvRow("CA", <<5, 8, 7>>, <<5, 5, 5>>),
       CsvRow("NY", <<4, 2, 4>>, <<3, 3, 3>>),
       CsvRow("TX", <<1, 3, 8>>, <<1, 1, 1>>),
       CsvRow(Aggregate, <<9, 9, 9>>, <<2, 2, 2>>) >>

InitIndicators ==
    \E csv52 \in {RefCsv52, IndicatorCsv52}, c \in CoordVariants :
        ServeStart(RefGdpCsv, c, RefFiltrationCsv, RefCsv51, csv52,
                   RefCommodityRaw, RefNetwork)

NextIndicators ==
    \/ /\ Idle
       /\ \E measure \in ViewMeasures, filtration \in 0..3, show_edges \in BOOLEAN,
             network_type \in {None, "51x51", "52x52"} :
              UpdateMap(measure, filtration, show_edges, 2, None, network_type)
    \/ /\ Idle
       /\ \E centralities \in {centralities_51x51, centralities_52x52},
             measure \in ViewMeasures \ {None},
             changes \in {<<>>, <<rank_changes>>},
             network_type \in {"51x51", "52x52"} :
              CreateNetworkMapCall(centralities, measure, FALSE, <<>>, changes,
                                   network_type)
    \/ Return

SpecIndicators == InitIndicators /\ [][NextIndicators]_vars

\* a figure has been built, by create_network_map called directly or by update_map
FigureBuilt ==
    /\ request.name \in {"create_network_map", "update_map"}
    /\ ~request.raised

\* the arguments create_network_map got for the figure
FigureMeasure ==
    IF request.name = "update_map" THEN OrDefault(request.measure, "eigenvector")
    ELSE request.measure

FigureType ==
    IF request.name = "update_map" THEN OrDefault(request.network_type, "51x51")
    ELSE request.network_type

ChangesProvided == request.name = "update_map" \/ request.provided

\* the state's change of rank for the figure's measure in rank_changes
RankChangeOf(state) ==
    LET rows == SelectRows(rank_changes, "state", state)
    IN IF rows = <<>> THEN Undefined ELSE rows[1][FigureMeasure \o "_change"]

\* C26: a node of the figure has an indicator label exactly when the network type
\* is '52x52', rank_changes was passed, the node's change for the measure shown is
\* defined and its absolute value is at least 3; the label is an up marker for a
\* positive change and a down marker for a negative one; with network type '51x51'
\* no node has an indicator or a 'vs domestic' line in its hover text
C26_IndicatorsOnlyWhenComparing ==
    FigureBuilt =>
        \A i \in 1..Len(node_labels) :
            LET node == node_labels[i]
                change == RankChangeOf(node.state)
                shown == /\ FigureType = "52x52"
                         /\ ChangesProvided
                         /\ IsDefined(change)
                         /\ Abs(Val(change)) >= IndicatorThreshold
            IN /\ node.indicator # <<>> <=> shown
               /\ shown => node.indicator[1].marker
                               = IF Val(change) > 0 THEN "up" ELSE "down"
               /\ FigureType = "51x51" =>
                      node.indicator = <<>> /\ node.vs_domestic = <<>>

\* an extended map with an up indicator, a down indicator, a node whose change is
\* too small for one and a node without a change
C26_Witness ==
    /\ FigureBuilt
    /\ FigureType = "52x52"
    /\ \E i, j, k, l \in 1..Len(node_labels) :
           /\ node_labels[i].indicator # <<>>
           /\ node_labels[i].indicator[1].marker = "up"
           /\ node_labels[j].indicator # <<>>
           /\ node_labels[j].indicator[1].marker = "down"
           /\ node_labels[k].indicator = <<>>
           /\ node_labels[k].vs_domestic # <<>>
           /\ node_labels[l].vs_domestic = <<>>

\* the state and the value of the measure for every row of the table that has
\* coordinates, in the table's order
ShownOf(table, measure) ==
    LET HasCoords(row) == \E k \in 1..Len(coords) : coords[k].state_abbr = row.state
        rows == SelectSeq(table, HasCoords)
    IN [i \in 1..Len(rows) |-> [state |-> rows[i].state, value |-> rows[i][measure]]]

\* the state and the value of every node of the figure
ShownNodes ==
    [i \in 1..Len(node_labels) |->
        [state |-> node_labels[i].state, value |-> node_labels[i].value]]

\* C29: in update_map the filtration branch comes before the network type: for
\* betweenness with the filtration slider at 1, 2 or 3 the map shows the domestic
\* filtration table of that level even when the network type is '52x52', and then
\* each node still gets the 'vs domestic' line of its change in rank_changes; in
\* every other case the map shows the extended table without its 'RoW' row for
\* '52x52' and the domestic table otherwise
C29_FiltrationBeforeNetworkType ==
    (request.name = "update_map" /\ ~request.raised) =>
        IF FigureMeasure = "betweenness" /\ request.filtration \in 1..3
        THEN /\ ShownNodes
                    = ShownOf(filtration_data[FiltrationKey(request.filtration)],
                              "betweenness")
             /\ FigureType = "52x52" =>
                    \A i \in 1..Len(node_labels) :
                        LET change == RankChangeOf(node_labels[i].state)
                        IN IF IsDefined(change)
                           THEN /\ node_labels[i].vs_domestic # <<>>
                                /\ node_labels[i].vs_domestic[1].change = Val(change)
                           ELSE node_labels[i].vs_domestic = <<>>
        ELSE IF FigureType = "52x52"
             THEN ShownNodes
                      = ShownOf(SelectSeq(centralities_52x52,
                                          LAMBDA row : row.state # Aggregate),
                                FigureMeasure)
             ELSE ShownNodes = ShownOf(centralities_51x51, FigureMeasure)

\* an extended map asked for betweenness at filtration level 1: it shows the three
\* states of the domestic level-1 table, with a 'vs domestic' line on a node
C29_Witness ==
    /\ request.name = "update_map"
    /\ ~request.raised
    /\ request.measure = "betweenness"
    /\ request.filtration = 1
    /\ request.network_type = "52x52"
    /\ Len(node_labels) > 1
    /\ ShownNodes # ShownOf(SelectSeq(centralities_52x52,
                                      LAMBDA row : row.state # Aggregate),
                            "betweenness")
    /\ \E i \in 1..Len(node_labels) : node_labels[i].vs_domestic # <<>>

(***************************************************************************)
(* Claims about the events that no click sets off.                         *)
(***************************************************************************)
\* the call was set off by the table and has no row of the table's data to evaluate:
\* no active cell, or a row past the end of the data
TableFellThrough ==
    /\ Selected
    /\ request.triggered = "rankings-table"
    /\ ~RowClicked

\* C27: a call of handle_state_selection triggered by rankings-table with no active
\* cell or with an out-of-range row evaluates the retained clickData as a map click
\* would: the result is None when the retained click names the current selection, the
\* clicked state when it names another state, and the current selection when it
\* names none; so the table re-render that follows a selection by a map click clears
\* that selection
C27_TableEventReplaysMapClick ==
    TableFellThrough =>
        /\ store_selected_state = request.result
        /\ request.result =
               IF ClickNamesState
               THEN IF request.click_data[1].points[1].customdata[1]
                           = request.current_state
                    THEN NoValue
                    ELSE request.click_data[1].points[1].customdata[1]
               ELSE request.current_state

\* the table was re-created and put into the page, nobody clicked, and the selection
\* 'CA' that the retained map click had made is gone
C27_Witness ==
    /\ TableFellThrough
    /\ event.id = "rankings-table-container"
    /\ request.active_cell = <<>>
    /\ ClickNamesState
    /\ request.click_data = clickData
    /\ request.click_data[1].points[1].customdata[1] = "CA"
    /\ request.current_state = "CA"
    /\ store_selected_state = NoValue

\* the theme switch was flipped and the three callbacks that write the view stores
\* have run for it
ThemeChanged ==
    /\ event.id = "dark-mode-toggle"
    /\ ~IsPending("update_measure_buttons")
    /\ ~IsPending("toggle_network_type")
    /\ ~IsPending("toggle_app_mode")

\* C28: the view is not kept across a theme change: the dark-mode toggle sets off
\* update_measure_buttons, toggle_network_type and toggle_app_mode with a trigger
\* that is none of their buttons, and once they have run selected-measure is
\* 'eigenvector', network-type is '51x51' and app-mode is 'explore', whatever they
\* were when the switch was flipped
C28_ThemeChangeResetsView ==
    /\ event.id = "dark-mode-toggle" =>
           \A c \in {"update_measure_buttons", "toggle_network_type", "toggle_app_mode"} :
               IsPending(c) => TriggerOf(c) = "dark-mode-toggle"
    /\ ThemeChanged =>
           /\ store_selected_measure = "eigenvector"
           /\ store_network_type = "51x51"
           /\ store_app_mode = "explore"
           /\ ~btn_outline["btn-eigen"]
           /\ ~btn_outline["btn-51x51"]

\* the switch was flipped on a page that showed betweenness on the extended network
\* in analyze mode, and the page is back at its three defaults
C28_Witness ==
    /\ ThemeChanged
    /\ pending = {}
    /\ event.selected_measure = "betweenness"
    /\ event.network_type = "52x52"
    /\ event.app_mode = "analyze"
    /\ store_selected_measure = "eigenvector"
    /\ store_network_type = "51x51"
    /\ store_app_mode = "explore"

====
